---- MODULE Spec2Model ----
(***************************************************************************)
(* Model of the OCTOPUS_AUTOMATION batch drivers.                          *)
(*                                                                         *)
(*   prog = "report" : report_generator.generate_all_reports, called by    *)
(*                     NumCallers threads (single-flight guard, worker     *)
(*                     thread, ThreadPoolExecutor, progress window)        *)
(*   prog = "upload" : script4.main (upload pool, no guard, daemon worker) *)
(*   prog = "fetch"  : email_reader_attachment_download.process_vehicle    *)
(*                                                                         *)
(* Spec runs the report or the upload driver, FetchSpec the fetch phase;   *)
(* the program that runs is chosen initially and never changes.            *)
(***************************************************************************)
EXTENDS Integers, Sequences, FiniteSets, TLC

\* ------------------------------------------------------------------ bounds
NumCallers == 2       \* threads that may call generate_all_reports
NumVehicles == 2      \* vehicle folders under the download root
ReentryVehicles == 1  \* the same, in behaviours with more than one caller
MaxWorkers == 2       \* max_workers is drawn from 1..MaxWorkers
NumDates == 2         \* calendar dates that occur in artifacts and email rows
MaxLinks == 3         \* report links in one vehicle email
MaxRows == 2          \* table rows of an email whose links are extracted
MaxFiles == 2         \* non-empty workbooks in one vehicle folder
MaxFileRows == 2      \* rows of one workbook
MaxQueue == 2         \* callbacks waiting in the window's event queue
NumFrames == 2        \* frames of the Launcher's animated sticker
MaxFlows == 2         \* script-flow threads of the Launcher alive at once
MaxResyncLinks == 2   \* links of an email whose vehicle is synced a second time
MaxListed == 3        \* vehicle ids in vehicle_list.txt
MaxSeconds == 3       \* seconds start_countdown waits (wait_minutes * 60)
MaxNameLen == 2       \* characters in the name of a sticker folder
MaxStickers == 3      \* sub-folders of the sticker directory
MaxLaunches == 4      \* launches whose sticker folder is followed

\* ------------------------------------------------------- program constants
MAX_CONCURRENT_UPLOADS == 2

Callers == 1..NumCallers
Vehicles == 1..NumVehicles
NoOne == 0
Dates == 1..NumDates
None == 0

VARIABLES
    prog,        \* which program this behaviour runs
    callers,     \* the threads that call generate_all_reports in this behaviour
    lastExit,    \* how the most recent accepted call of generate_all_reports ended
    lock,        \* holder of _running_lock (NoOne when free)
    running,     \* the module-level flag _running
    pc,          \* pc[c]: position of caller c in generate_all_reports / main
    how,         \* how[c]: why the call of c left its try block
    showGui,     \* show_gui argument of the call (always TRUE for the upload)
    poolSize,    \* max_workers of the call's ThreadPoolExecutor
    nfolders,    \* len(vehicle_folders) of the call; the folders are 1..nfolders
    gui,         \* state of the call's progress window
    wpc,         \* position of the call's run_executor thread
    nsub,        \* number of futures submitted so far by run_executor
    threadCap,   \* the threads the pool has, once submit has failed to start
                 \* another one (0: the pool can still grow to max_workers)
    execRaised,  \* an exception is in flight in run_executor
    tpc,         \* tpc[c][v]: state of the future / task of vehicle v
    emitted,     \* emitted[c][v]: calls made to the progress sink for v, in order
    allDone,     \* number of all-complete events issued (mark_done / final print)
    doneHandoff, \* fate of mark_done's root.after hand-off
    fpc,         \* position of process_vehicle
    folder,      \* the files of the vehicle's download folder
    existing,    \* existing_first_dates, the dedup set of the sync
    links,       \* the (link, date_range, report_type) list of the email
    idx,         \* number of links the for loop has visited
    dlCalls,     \* the calls of download_file, in order, with their result
    rows,        \* the table rows of the vehicle's email
    run,         \* which sync of the vehicle this is: the first or the one after
    firstCalls,  \* the download_file calls of the first sync, once it is over
    tstep,       \* position of one task(folder) followed event by event
    hasGui,      \* whether that task's run has a progress window
    allDfs,      \* all_dfs: the non-empty workbooks of the folder
    tidx,        \* workbooks the loop over all_dfs has handled
    processedRows, \* processed_rows
    sent,        \* the progress events of the task, each with its percent
    win,         \* the window the events of one vehicle go to ("none": console)
    plan,        \* the statuses the task of that vehicle sends, in order
    nsent,       \* how many of them it has sent
    tkq,         \* root.after callbacks waiting: an index of plan, or 0 for a
                 \* callback of another vehicle
    seen,        \* the indices of plan the sink has shown, in order
    handoff,     \* the root.after call that task is inside: none, one the
                 \* window's thread has yet to run, or one it will never run
    lpc,         \* position of each background flow thread of the Launcher
    flow,        \* script_number of the flow each thread runs (0: none)
    ran,         \* the phases each flow thread has invoked in its try block
    called,      \* the scripts each flow thread has called in its try block
    inside,      \* the phase each flow thread is inside ("none": in no phase)
    ended,       \* the script whose exception each flow thread is handling,
                 \* and the message box the thread has shown
    buttons,     \* state of each of the Launcher's three buttons
    statusText,  \* text of the Launcher's status label
    frame,       \* idx of animate_sticker
    touched,     \* which thread has changed which widget of the Launcher
    mpc,         \* position of fetch_reports_for_all_vehicles
    nlisted,     \* len(vehicle_ids)
    results,     \* how process_vehicle ended for the vehicles handled so far
    conn,        \* state of the IMAP connection
    cpc,         \* position of start_countdown's countdown thread
    upc,         \* position of the thread that called start_countdown
    remaining,   \* seconds left of the countdown
    skipEvent,   \* skip_event.is_set()
    rootUp,      \* the countdown window exists
    fetch,       \* the state of the fetch run_script started in each thread
    gpc,         \* position of generate_report_for_vehicle in one folder
    docs,        \* the .docx files of that folder
    workbooks,   \* what the .xlsx files of that folder hold
    stickers,    \* the names of the sub-folders of the sticker directory
    stateFile,   \* last_sticker.txt
    launches     \* per call of get_sticker_folder: the state file it found
                 \* and the folder it returned

vars == <<prog, callers, lastExit, lock, running, pc, how, showGui, poolSize,
          nfolders, gui, wpc, nsub, threadCap, execRaised, tpc, emitted, allDone, doneHandoff,
          fpc, folder, existing, links, idx, dlCalls, rows, run, firstCalls,
          tstep, hasGui, allDfs, tidx, processedRows, sent,
          win, plan, nsent, tkq, seen, handoff,
          lpc, flow, ran, called, inside, ended, buttons, statusText, frame, touched,
          mpc, nlisted, results, conn,
          cpc, upc, remaining, skipEvent, rootUp, fetch,
          gpc, docs, workbooks,
          stickers, stateFile, launches>>

taskVars == <<tstep, hasGui, allDfs, tidx, processedRows, sent>>

sinkVars == <<win, plan, nsent, tkq, seen, handoff>>

launchVars == <<lpc, flow, ran, called, inside, ended, buttons, statusText, frame,
                touched>>

listVars == <<mpc, nlisted, results, conn>>

countVars == <<cpc, upc, remaining, skipEvent, rootUp, fetch>>

reportVars == <<gpc, docs, workbooks>>

stickerVars == <<stickers, stateFile, launches>>

\* the state of the parts that run beside the drivers
sideVars == <<countVars, reportVars, stickerVars>>

fetchVars == <<fpc, folder, existing, links, idx, dlCalls, rows, run, firstCalls>>

\* what the loop over the links leaves alone besides its dedup set and list
syncVars == <<rows, run, firstCalls>>

\* what no step of the batch drivers changes
fixed == <<prog, callers, fetchVars, taskVars, sinkVars, launchVars, listVars, sideVars>>

callVars == <<showGui, poolSize, nfolders>>
execVars == <<wpc, nsub, threadCap, execRaised, tpc, emitted, allDone, doneHandoff>>

\* what no step of the fetch phase changes
batchVars == <<callers, lastExit, lock, running, pc, how, gui, callVars, execVars,
               taskVars, sinkVars, launchVars, listVars, sideVars>>

\* what no step of the single task changes
restVars == <<callers, lastExit, lock, running, pc, how, gui, callVars, execVars,
              fetchVars, sinkVars, launchVars, listVars, sideVars>>

\* what no step of the hand-over to the sink changes
unsunkVars == <<callers, lastExit, lock, running, pc, how, gui, callVars, execVars,
                fetchVars, taskVars, launchVars, listVars, sideVars>>

\* ----------------------------------------------------------------- helpers
NoVehicles == [v \in Vehicles |-> "unsub"]
NoEvents == [v \in Vehicles |-> << >>]

\* vehicle_folders of call c, and the futures run_executor has submitted
Folders(c) == 1..nfolders[c]
Submitted(c) == 1..nsub[c]

\* a future is finished when its task returned ("done") or raised; "failed" is a
\* raised future as_completed has not yielded yet, "caught" one whose exception
\* the loop's except clause has handled
Terminal == {"done", "failed", "caught"}

\* a pool thread is inside task(folder): running ("gen"), waiting for the
\* window's thread to take a root.after call ("calling"), or waiting for a
\* window that has stopped dispatching ("hung")
Executing == {"gen", "calling", "hung"}

\* Statuses by which the sink learns that an entity ended
SuccessKinds == {"saved", "uploaded", "vdone"}
FailureKinds == {"noxlsx", "empty", "error", "nodoc", "boundary"}

\* root.after(0, _apply) from a worker thread: while the window's event loop
\* is dispatching the call is handed to the loop's thread and the worker waits
\* until that thread has run it ("calling"); otherwise the call raises (after
\* waiting a second for the loop) and the except clause drops it
GuiAfter(c) == IF gui[c] = "mainloop" THEN "calling" ELSE "dropped"

\* progress_wrapper: gui.update_progress when there is a window, else print
Via(c) == IF gui[c] = "none" THEN "printed" ELSE GuiAfter(c)


\* (mutant) the executor is shut down without waiting
ExecutorNotWaited(c) == TRUE

\* the with-block of ThreadPoolExecutor exits (shutdown(wait=True)) only when
\* every submitted future has finished
ExecutorDrained(c) == \A v \in Submitted(c) : tpc[c][v] \in Terminal

\* as_completed has yielded every future (fut.result() of a task that returned
\* has no effect and is not a step of its own)
LoopFinished(c) == \A v \in Submitted(c) : tpc[c][v] \in {"done", "caught"}

\* the download root holds at most this many vehicle folders
MaxFolders == IF Cardinality(callers) > 1 THEN ReentryVehicles ELSE NumVehicles

\* (mutant) a queued work item is started although every pool thread is busy
SlotAlwaysFree(c) == TRUE

\* the threads the pool of call c can have
PoolThreads(c) == IF threadCap[c] = 0 THEN poolSize[c] ELSE threadCap[c]

\* ThreadPoolExecutor: at most max_workers tasks run, work items start in
\* submission order
SlotFree(c) == Cardinality({v \in Vehicles : tpc[c][v] \in Executing}) < PoolThreads(c)
NextQueued(c, v) ==
    /\ tpc[c][v] = "pending"
    /\ \A u \in Vehicles : u < v => tpc[c][u] # "pending"


\* ------------------------------------- email_reader_attachment_download (data)
\* A file of a vehicle folder: its name, whether it is an .xlsx, whether
\* read_excel can read it, whether it has a createdAt column, and that column
\* (values: an empty cell, a value that is no datetime, or a datetime)
NullValue == [kind |-> "null", date |-> None]
BadValue == [kind |-> "bad", date |-> None]
DateValue(d) == [kind |-> "datetime", date |-> d]

File(n, x, r, h, col) ==
    [name |-> n, xlsx |-> x, readable |-> r, hasCol |-> h, createdAt |-> col]

\* an artifact of an earlier sync whose first createdAt value falls on date d
\* and whose later rows reach into another day
SyncedFile(d) ==
    File(<<"synced", d>>, TRUE, TRUE, TRUE,
         <<DateValue(d), DateValue(d), DateValue((d % NumDates) + 1)>>)

\* files that yield no key: a corrupt workbook, one without the column, one
\* with only nulls, one whose first value is not a datetime, an old report
OtherFiles ==
    { File(<<"corrupt">>, TRUE, FALSE, FALSE, << >>),
      File(<<"nocol">>, TRUE, TRUE, FALSE, << >>),
      File(<<"nulls">>, TRUE, TRUE, TRUE, <<NullValue>>),
      File(<<"badfirst">>, TRUE, TRUE, TRUE, <<NullValue, BadValue, DateValue(1)>>),
      File(<<"temp_report.docx">>, FALSE, TRUE, TRUE, <<DateValue(1)>>) }

\* the folders a sync may start from
StartFolders ==
    { OtherFiles \cup {SyncedFile(d) : d \in S} : S \in SUBSET Dates }

\* the date cell (date_range) of an email row: a bare date "d/m/yyyy", a date
\* inside other text, or text that holds no date
Cells ==
    { [form |-> "bare", date |-> d] : d \in Dates }
        \cup { [form |-> "embedded", date |-> 1], [form |-> "nodate", date |-> None] }

\* f.lower() of a file extension
Lower(ext) ==
    IF ext = ".DOCX" THEN ".docx" ELSE IF ext = ".XLSX" THEN ".xlsx" ELSE ext

\* the last path segment of a URL, without its query string: a name and the
\* extension it ends in (none for a URL like .../get?id=3)
Segments ==
    { [stem |-> "r1", ext |-> ".xlsx"], [stem |-> "r2", ext |-> ".XLSX"],
      [stem |-> "get", ext |-> ""] }

\* the href of an <a> of the email: where it points, and its last segment
Hrefs == { [dir |-> "https://h/a", seg |-> sg] : sg \in Segments }

\* a table cell without an <a> that has an href
NoHref == [dir |-> "", seg |-> [stem |-> "", ext |-> ""]]

\* url.split("/")[-1].split("?")[0]
BaseName(url) == url.seg

\* an entry of links: (href, date_range, report_type)
Link(href, cell, type) == [href |-> href, cell |-> cell, type |-> type]

\* what extract_all_links hands to the loop: one entry per row with a link,
\* the CAN link or the CSV link of the row
Candidates == { Link(h, ce, ty) : h \in Hrefs, ce \in Cells, ty \in {"can", "csv"} }

RECURSIVE SeqsUpTo(_, _)
SeqsUpTo(S, n) ==
    IF n = 0 THEN { << >> }
    ELSE LET shorter == SeqsUpTo(S, n - 1)
         IN  shorter \cup { Append(q, x) : q \in { r \in shorter : Len(r) = n - 1 }, x \in S }

\* a <tr> of the email: its number of <td> cells, the text of the first, and
\* the href of the <a> in the second (CSV) and the third (CAN) cell, NoHref
\* for a cell without a link; a row of two cells has no third cell
TableRows ==
    { [ncols |-> 3, cell |-> ce, csv |-> a, can |-> b] :
        ce \in Cells, a \in Hrefs \cup {NoHref}, b \in Hrefs \cup {NoHref} }
        \cup { [ncols |-> 2, cell |-> [form |-> "bare", date |-> 1],
                csv |-> h, can |-> NoHref] : h \in Hrefs }

\* (mutant) no continue after the CAN link: a row with both links emits both
RECURSIVE ExtractBothLinks(_)
ExtractBothLinks(rs) ==
    IF rs = << >> THEN << >>
    ELSE LET row == Head(rs)
             rest == ExtractBothLinks(Tail(rs))
         IN  IF row.ncols < 3 THEN rest
             ELSE (IF row.can # NoHref THEN <<Link(row.can, row.cell, "can")>> ELSE << >>)
                  \o (IF row.csv # NoHref THEN <<Link(row.csv, row.cell, "csv")>> ELSE << >>)
                  \o rest

\* extract_all_links(msg): one link per row of at least three cells, the CAN
\* link if the row has one, else the CSV link if it has one, in row order
RECURSIVE ExtractAllLinks(_)
ExtractAllLinks(rs) ==
    IF rs = << >> THEN << >>
    ELSE LET row == Head(rs)
             rest == ExtractAllLinks(Tail(rs))
         IN  IF row.ncols < 3 THEN rest
             ELSE IF row.can # NoHref THEN <<Link(row.can, row.cell, "can")>> \o rest
             ELSE IF row.csv # NoHref THEN <<Link(row.csv, row.cell, "csv")>> \o rest
             ELSE rest

\* parse_email_date(date_str): pd.to_datetime(dayfirst=True, errors="coerce")
\* parses a bare date; otherwise the first dd/mm/yyyy pattern found by the
\* regular expression is parsed; None when there is none
ParseEmailDate(cell) ==
    IF cell.form = "bare" THEN cell.date
    ELSE IF cell.form = "embedded" THEN cell.date
    ELSE None

\* the first non-null createdAt value of a workbook, as a date; None when the
\* file is skipped
FirstCreatedDate(f) ==
    IF ~f.xlsx \/ ~f.readable \/ ~f.hasCol THEN None
    ELSE LET ser == SelectSeq(f.createdAt, LAMBDA x : x.kind # "null")
         IN  IF ser = << >> THEN None
             ELSE IF ser[1].kind = "datetime" THEN ser[1].date
             ELSE None

\* (mutant) every createdAt value of a workbook that is a datetime adds its date
ScanCollectsAllDates(f) ==
    IF ~f.xlsx \/ ~f.readable \/ ~f.hasCol THEN {}
    ELSE { f.createdAt[k].date : k \in { j \in DOMAIN f.createdAt :
                                            f.createdAt[j].kind = "datetime" } }

\* what one file adds to the set: its first createdAt date, or nothing
KeysOf(f) == { FirstCreatedDate(f) } \ {None}

\* (mutant) the try block encloses the loop over the files, so that the first
\* unreadable workbook ends the scan
ScanStopsAtUnreadable(fs) ==
    IF \E f \in fs : f.xlsx /\ ~f.readable THEN {}
    ELSE UNION { KeysOf(f) : f \in fs }

\* get_existing_first_created_dates(folder)
GetExistingFirstCreatedDates(fs) ==
    UNION { KeysOf(f) : f \in fs }

\* ------------------------------------------------------------------- Init
\* the module state and call state of the batch drivers before any call
NoRun ==
    /\ lastExit = "none"
    /\ lock = NoOne
    /\ running = FALSE
    /\ pc = [c \in Callers |-> "idle"]
    /\ how = [c \in Callers |-> "none"]
    /\ showGui = [c \in Callers |-> TRUE]
    /\ poolSize = [c \in Callers |-> 1]
    /\ nfolders = [c \in Callers |-> 0]
    /\ gui = [c \in Callers |-> "none"]
    /\ wpc = [c \in Callers |-> "off"]
    /\ nsub = [c \in Callers |-> 0]
    /\ threadCap = [c \in Callers |-> 0]
    /\ execRaised = [c \in Callers |-> FALSE]
    /\ tpc = [c \in Callers |-> NoVehicles]
    /\ emitted = [c \in Callers |-> NoEvents]
    /\ allDone = [c \in Callers |-> 0]
    /\ doneHandoff = [c \in Callers |-> "none"]

\* process_vehicle has not started
NotFetching ==
    /\ fpc = "start"
    /\ existing = {}
    /\ links = << >>
    /\ idx = 0
    /\ dlCalls = << >>
    /\ rows = << >>
    /\ run = 1
    /\ firstCalls = << >>

\* no task is followed event by event
NoTask ==
    /\ tstep = "idle"
    /\ hasGui = TRUE
    /\ allDfs = << >>
    /\ tidx = 0
    /\ processedRows = 0
    /\ sent = << >>

\* the Launcher window as built by LauncherGUI.__init__: buttons enabled, no
\* flow running
NoLaunch ==
    /\ lpc = [t \in 1..MaxFlows |-> "idle"]
    /\ flow = [t \in 1..MaxFlows |-> 0]
    /\ ran = [t \in 1..MaxFlows |-> << >>]
    /\ called = [t \in 1..MaxFlows |-> {}]
    /\ inside = [t \in 1..MaxFlows |-> "none"]
    /\ ended = [t \in 1..MaxFlows |-> [raised |-> "none", box |-> "none"]]
    /\ buttons = [b \in 1..3 |-> "normal"]
    /\ statusText = "ready"
    /\ frame = 0
    /\ touched = {}

\* fetch_reports_for_all_vehicles has not been called
NoList ==
    /\ mpc = "start"
    /\ nlisted = 0
    /\ results = << >>
    /\ conn = "none"

\* the threads started by start_countdown
CountThreads == {"ui", "countdown"}

\* start_countdown has not been called
NoCountdown ==
    /\ cpc = "none"
    /\ upc = "none"
    /\ remaining = 0
    /\ skipEvent = FALSE
    /\ rootUp = FALSE
    /\ fetch = [t \in CountThreads |-> "none"]

\* generate_report_for_vehicle is not followed in a folder
NoReport ==
    /\ gpc = "none"
    /\ docs = {}
    /\ workbooks = "none"

\* a state file: it does not exist ("missing"), its content cannot be decoded
\* ("unreadable"), it cannot be opened for reading or writing ("locked"), or
\* it holds a text
StateFile(kind, text) == [kind |-> kind, text |-> text]

\* get_sticker_folder is not followed
NoSticker ==
    /\ stickers = {}
    /\ stateFile = StateFile("missing", << >>)
    /\ launches = << >>

\* none of the parts beside the drivers has started
NoSide ==
    /\ NoCountdown
    /\ NoReport
    /\ NoSticker

\* no vehicle's events are followed to the sink
NoSink ==
    /\ win = "none"
    /\ plan = << >>
    /\ nsent = 0
    /\ tkq = << >>
    /\ seen = << >>
    /\ handoff = "none"

\* report generation or upload, called by one thread or by several
Init ==
    /\ prog \in {"report", "upload"}
    /\ callers \in {{1}, Callers}
    /\ prog = "upload" => callers = {1}
    /\ NoRun
    /\ NotFetching
    /\ folder = {}
    /\ NoTask
    /\ NoSink
    /\ NoLaunch
    /\ NoList
    /\ NoSide

\* the fetch phase for one vehicle, over the folders a sync may start from
FetchInit ==
    /\ prog = "fetch"
    /\ callers = {1}
    /\ NoRun
    /\ NotFetching
    /\ folder \in StartFolders
    /\ NoTask
    /\ NoSink
    /\ NoLaunch
    /\ NoList
    /\ NoSide

\* the arguments and locals of a call of c: fresh when the call starts, gone
\* when it returns
FreshLocals(c) ==
    /\ showGui' = [showGui EXCEPT ![c] = TRUE]
    /\ poolSize' = [poolSize EXCEPT ![c] = 1]
    /\ nfolders' = [nfolders EXCEPT ![c] = 0]
    /\ gui' = [gui EXCEPT ![c] = "none"]
    /\ wpc' = [wpc EXCEPT ![c] = "off"]
    /\ nsub' = [nsub EXCEPT ![c] = 0]
    /\ threadCap' = [threadCap EXCEPT ![c] = 0]
    /\ execRaised' = [execRaised EXCEPT ![c] = FALSE]
    /\ tpc' = [tpc EXCEPT ![c] = NoVehicles]
    /\ emitted' = [emitted EXCEPT ![c] = NoEvents]
    /\ allDone' = [allDone EXCEPT ![c] = 0]
    /\ doneHandoff' = [doneHandoff EXCEPT ![c] = "none"]

\* ---------------------------------------- report_generator.generate_all_reports
\* a thread calls generate_all_reports(download_root, show_gui, max_workers).
\* The arguments are not read before the try block: their values are drawn
\* where the body first reads one (CheckRoot)
Call(c) ==
    /\ prog = "report"
    /\ c \in callers
    /\ pc[c] = "idle"
    /\ pc' = [pc EXCEPT ![c] = "enter"]
    /\ UNCHANGED <<fixed, lastExit, lock, running, how, gui, callVars, execVars>>

\* (mutant) the guard is entered without taking _running_lock
AcquireWithoutLock(c) ==
    /\ pc[c] = "enter"
    /\ lock' = c
    /\ pc' = [pc EXCEPT ![c] = "check"]
    /\ UNCHANGED <<fixed, lastExit, running, how, gui, callVars, execVars>>

\* with _running_lock:   (blocks while another thread holds the lock)
AcquireRunningLock(c) ==
    /\ pc[c] = "enter"
    /\ lock = NoOne
    /\ lock' = c
    /\ pc' = [pc EXCEPT ![c] = "check"]
    /\ UNCHANGED <<fixed, lastExit, running, how, gui, callVars, execVars>>

\* if _running:
CheckRunning(c) ==
    /\ pc[c] = "check"
    /\ pc' = [pc EXCEPT ![c] = IF running THEN "skip" ELSE "set"]
    /\ UNCHANGED <<fixed, lastExit, lock, running, how, gui, callVars, execVars>>

\* (mutant) the guard sits inside the try block, so that the rejected call
\* also runs the finally clause and clears the flag
SkipReturnResets(c) ==
    /\ pc[c] = "skip"
    /\ lock' = NoOne
    /\ running' = FALSE
    /\ pc' = [pc EXCEPT ![c] = "idle"]
    /\ FreshLocals(c)
    /\ UNCHANGED <<fixed, lastExit, how>>

\* print("already running"); return   (leaving the with-block frees the lock)
SkipReturn(c) ==
    /\ pc[c] = "skip"
    /\ lock' = NoOne
    /\ pc' = [pc EXCEPT ![c] = "idle"]
    /\ FreshLocals(c)
    /\ UNCHANGED <<fixed, lastExit, running, how>>

\* (mutant) the with-block of the guard spans the whole body of the call
SetRunningKeepsLock(c) ==
    /\ pc[c] = "set"
    /\ running' = TRUE
    /\ pc' = [pc EXCEPT ![c] = "try"]
    /\ UNCHANGED <<fixed, lastExit, lock, how, gui, callVars, execVars>>

\* _running = True, then the with-block ends
SetRunning(c) ==
    /\ pc[c] = "set"
    /\ running' = TRUE
    /\ lock' = NoOne
    /\ pc' = [pc EXCEPT ![c] = "try"]
    /\ UNCHANGED <<fixed, lastExit, how, gui, callVars, execVars>>

\* the ways out of the try block that are an exception
Raising == {"listerr", "guierr", "threaderr", "serviceerr"}

\* leave the try block for the finally clause
ToFinally(c, reason) ==
    /\ pc' = [pc EXCEPT ![c] = "finally"]
    /\ how' = [how EXCEPT ![c] = reason]

\* (mutant) the missing-root check returns before the try block is entered
CheckRootOutsideTry(c) ==
    /\ pc[c] = "try"
    /\ \/ /\ pc' = [pc EXCEPT ![c] = "idle"]
          /\ lastExit' = "returned"
          /\ UNCHANGED <<nfolders, how>>
       \/ /\ \E n \in 1..MaxFolders : nfolders' = [nfolders EXCEPT ![c] = n]
          /\ pc' = [pc EXCEPT ![c] = "gui"]
          /\ UNCHANGED <<how, lastExit>>
    /\ \E g \in BOOLEAN, w \in 1..MaxWorkers :
          /\ showGui' = [showGui EXCEPT ![c] = g]
          /\ poolSize' = [poolSize EXCEPT ![c] = w]
    /\ UNCHANGED <<fixed, lock, running, gui, execVars>>

\* (mutant) the progress window is built before the folder list is tested
CheckRootAfterWindow(c) ==
    /\ pc[c] = "try"
    /\ \/ /\ ToFinally(c, "noroot")
          /\ UNCHANGED <<nfolders, gui>>
       \/ /\ ToFinally(c, "nofolders")
          /\ gui' = [gui EXCEPT ![c] = "created"]
          /\ UNCHANGED nfolders
       \/ /\ \E n \in 1..MaxFolders : nfolders' = [nfolders EXCEPT ![c] = n]
          /\ pc' = [pc EXCEPT ![c] = "gui"]
          /\ UNCHANGED <<how, gui>>
    /\ \E g \in BOOLEAN, w \in 1..MaxWorkers :
          /\ showGui' = [showGui EXCEPT ![c] = g]
          /\ poolSize' = [poolSize EXCEPT ![c] = w]
    /\ UNCHANGED <<fixed, lastExit, lock, running, execVars>>

\* root = ...; isdir check; vehicle_folders = [...]; emptiness check
CheckRoot(c) ==
    /\ pc[c] = "try"
    /\ \/ /\ ToFinally(c, "noroot")
          /\ UNCHANGED nfolders
       \/ /\ ToFinally(c, "listerr")
          /\ UNCHANGED nfolders
       \/ /\ ToFinally(c, "nofolders")
          /\ UNCHANGED nfolders
       \/ /\ \E n \in 1..MaxFolders : nfolders' = [nfolders EXCEPT ![c] = n]
          /\ pc' = [pc EXCEPT ![c] = "gui"]
          /\ UNCHANGED how
    /\ \E g \in BOOLEAN, w \in 1..MaxWorkers :
          /\ showGui' = [showGui EXCEPT ![c] = g]
          /\ poolSize' = [poolSize EXCEPT ![c] = w]
    /\ UNCHANGED <<fixed, lastExit, lock, running, gui, execVars>>

\* gui = ReportProgressGUI(vehicle_names) if show_gui else None
BuildGui(c) ==
    /\ pc[c] = "gui"
    /\ \/ /\ ~showGui[c]
          /\ pc' = [pc EXCEPT ![c] = "thread"]
          /\ UNCHANGED <<gui, how>>
       \/ /\ showGui[c]
          /\ gui' = [gui EXCEPT ![c] = "created"]
          /\ pc' = [pc EXCEPT ![c] = "thread"]
          /\ UNCHANGED how
       \/ /\ showGui[c]
          /\ ToFinally(c, "guierr")
          /\ UNCHANGED gui
    /\ UNCHANGED <<fixed, lastExit, lock, running, callVars, execVars>>

\* t = threading.Thread(target=run_executor, daemon=False); t.start()
StartThread(c) ==
    /\ pc[c] = "thread"
    /\ \/ /\ wpc' = [wpc EXCEPT ![c] = "submit"]
          /\ pc' = [pc EXCEPT ![c] = IF showGui[c] THEN "gui_start" ELSE "join"]
          /\ UNCHANGED how
       \/ /\ ToFinally(c, "threaderr")
          /\ UNCHANGED wpc
    /\ UNCHANGED <<fixed, lastExit, lock, running, gui, callVars, nsub, threadCap, execRaised, tpc,
                   emitted, allDone, doneHandoff>>

\* (mutant) the call does not wait for the worker thread
JoinNoWait(c) ==
    /\ pc[c] = "join"
    /\ ToFinally(c, "completed")
    /\ UNCHANGED <<fixed, lastExit, lock, running, gui, callVars, execVars>>

\* t.join(): returns once run_executor has ended
Join(c) ==
    /\ pc[c] = "join"
    /\ wpc[c] = "dead"
    /\ ToFinally(c, "completed")
    /\ UNCHANGED <<fixed, lastExit, lock, running, gui, callVars, execVars>>

\* finally: with _running_lock:
AcquireForReset(c) ==
    /\ pc[c] = "finally"
    /\ lock = NoOne
    /\ lock' = c
    /\ pc' = [pc EXCEPT ![c] = "reset"]
    /\ UNCHANGED <<fixed, lastExit, running, how, gui, callVars, execVars>>

\* _running = False; the call returns or re-raises
ResetRunning(c) ==
    /\ pc[c] = "reset"
    /\ running' = FALSE
    /\ lock' = NoOne
    /\ pc' = [pc EXCEPT ![c] = "idle"]
    /\ how' = [how EXCEPT ![c] = "none"]
    /\ lastExit' = (IF how[c] \in Raising THEN "raised" ELSE "returned")
    /\ FreshLocals(c)
    /\ UNCHANGED fixed

\* -------------------------------------------------------- progress window
\* gui.start(): root.mainloop() begins dispatching
EnterMainloop(c) ==
    /\ pc[c] = "gui_start"
    /\ gui' = [gui EXCEPT ![c] = "mainloop"]
    /\ pc' = [pc EXCEPT ![c] = "mainloop"]
    /\ UNCHANGED <<fixed, lastExit, lock, running, how, callVars, execVars>>

\* the event loop runs mark_done's _apply: status text, Close Now enabled,
\* auto-close timer armed
ApplyAllDone(c) ==
    /\ gui[c] = "mainloop"
    /\ doneHandoff[c] = "queued"
    /\ doneHandoff' = [doneHandoff EXCEPT ![c] = "applied"]
    /\ UNCHANGED <<fixed, lastExit, lock, running, pc, how, gui, callVars, wpc, nsub, threadCap,
                   execRaised, tpc, emitted, allDone>>

\* the loop's thread runs a root.after call a task has handed over: the timer
\* is registered, the call returns and the task goes on
ServeCall(c, v) ==
    /\ gui[c] = "mainloop"
    /\ tpc[c][v] = "calling"
    /\ tpc' = [tpc EXCEPT ![c][v] = "gen"]
    /\ UNCHANGED <<fixed, lastExit, lock, running, pc, how, gui, callVars, wpc, nsub, threadCap,
                   execRaised, emitted, allDone, doneHandoff>>

\* the same for the root.after call of mark_done: run_executor goes on and ends
ServeMarkDone(c) ==
    /\ gui[c] = "mainloop"
    /\ doneHandoff[c] = "calling"
    /\ doneHandoff' = [doneHandoff EXCEPT ![c] = "queued"]
    /\ wpc' = [wpc EXCEPT ![c] = "dead"]
    /\ UNCHANGED <<fixed, lastExit, lock, running, pc, how, gui, callVars, nsub, threadCap,
                   execRaised, tpc, emitted, allDone>>

\* the loop stops dispatching: a call handed over and not yet run is never
\* run, and the thread that made it waits for good
LeaveMainloop(c) ==
    /\ gui' = [gui EXCEPT ![c] = "destroyed"]
    /\ tpc' = [tpc EXCEPT ![c] = [v \in Vehicles |->
                  IF tpc[c][v] = "calling" THEN "hung" ELSE tpc[c][v]]]
    /\ doneHandoff' = [doneHandoff EXCEPT ![c] = IF @ = "calling" THEN "hung" ELSE @]

\* what follows gui.start() once the window is gone: generate_all_reports goes
\* on to t.join(), script4.main returns
AfterMainloop(c) ==
    IF prog = "report"
    THEN /\ pc' = [pc EXCEPT ![c] = "join"]
         /\ UNCHANGED how
    ELSE /\ pc' = [pc EXCEPT ![c] = "idle"]
         /\ how' = [how EXCEPT ![c] = "completed"]

\* root.destroy() ends mainloop: the user closes the window at any time, or
\* _close_now runs (auto-close timer or Close Now button) after mark_done
WindowClosed(c) ==
    /\ pc[c] = "mainloop"
    /\ \/ TRUE
       \/ doneHandoff[c] = "applied"
    /\ LeaveMainloop(c)
    /\ AfterMainloop(c)
    /\ UNCHANGED <<fixed, lastExit, lock, running, callVars, wpc, nsub, threadCap, execRaised,
                   emitted, allDone>>

\* _close_now run by the auto-close timer that mark_done's _apply has armed
\* (auto_close_secs = 2): the window closes with nobody touching it
AutoClose(c) ==
    /\ pc[c] = "mainloop"
    /\ doneHandoff[c] = "applied"
    /\ LeaveMainloop(c)
    /\ AfterMainloop(c)
    /\ UNCHANGED <<fixed, lastExit, lock, running, callVars, wpc, nsub, threadCap, execRaised,
                   emitted, allDone>>

\* ------------------------------------------------ run_executor (worker thread)
\* the numbers of threads a pool can have when a submit finds that it has to
\* start one: a thread per earlier submit, less those submits that found a
\* thread idle (one that had finished a task); fewer than max_workers, and
\* no fewer than the tasks that are running
ThreadsSoFar(c) ==
    { k \in 1..nsub[c] :
        /\ k < poolSize[c]
        /\ Cardinality({v \in Vehicles : tpc[c][v] \in Executing}) <= k
        /\ nsub[c] - k <= Cardinality({v \in Vehicles : tpc[c][v] \in Terminal}) }

\* executor.submit(task, f) for the next folder of vehicle_folders; submit may
\* raise, which leaves the with-block.  submit puts the work item into the
\* queue before it starts a pool thread: when it raises because no thread can
\* be started and the pool has threads from earlier submits, the item stays
\* queued and one of those threads runs it; an item no thread will run counts
\* as not submitted
Submit(c) ==
    /\ wpc[c] = "submit"
    /\ nsub[c] < nfolders[c]
    /\ \/ /\ nsub' = [nsub EXCEPT ![c] = @ + 1]
          /\ tpc' = [tpc EXCEPT ![c][nsub[c] + 1] = "pending"]
          /\ wpc' = [wpc EXCEPT ![c] = IF nsub[c] + 1 = nfolders[c]
                                       THEN "collect" ELSE "submit"]
          /\ UNCHANGED <<execRaised, threadCap>>
       \/ /\ execRaised' = [execRaised EXCEPT ![c] = TRUE]
          /\ wpc' = [wpc EXCEPT ![c] = "drain"]
          /\ UNCHANGED <<nsub, tpc, threadCap>>
       \/ /\ \E k \in ThreadsSoFar(c) : threadCap' = [threadCap EXCEPT ![c] = k]
          /\ nsub' = [nsub EXCEPT ![c] = @ + 1]
          /\ tpc' = [tpc EXCEPT ![c][nsub[c] + 1] = "pending"]
          /\ execRaised' = [execRaised EXCEPT ![c] = TRUE]
          /\ wpc' = [wpc EXCEPT ![c] = "drain"]
    /\ UNCHANGED <<fixed, lastExit, lock, running, pc, how, gui, callVars,
                   emitted, allDone, doneHandoff>>

\* a pool thread takes the oldest queued work item and enters task(folder)
RunTask(c, v) ==
    /\ NextQueued(c, v)
    /\ SlotFree(c)
    /\ tpc' = [tpc EXCEPT ![c][v] = "gen"]
    /\ UNCHANGED <<fixed, lastExit, lock, running, pc, how, gui, callVars, wpc, nsub, threadCap,
                   execRaised, emitted, allDone, doneHandoff>>

\* the statuses of one pass of  for file_path, df in all_dfs:  "Reading", then
\* a continue, or the page of the file and "Processing"
Iterations == { <<"reading">>, <<"reading", "processing">> }

\* the statuses of the loop over n workbooks
RECURSIVE LoopStatuses(_)
LoopStatuses(n) ==
    IF n = 0 THEN { << >> }
    ELSE { l \o i : l \in LoopStatuses(n - 1), i \in Iterations }

\* generate_report_for_vehicle(folder, progress_cb):
\*   listing the folder (outside the try) may raise out of the task;
\*   no .xlsx; only empty .xlsx; "Found", the loop over all_dfs and "Saved";
\*   an exception in the try (before the loop, in a pass once its "Reading" or
\*   its "Processing" is out, or after the loop) is reported and swallowed
ReportOutcomes ==
    { [raises |-> TRUE,  kinds |-> << >>],
      [raises |-> FALSE, kinds |-> <<"noxlsx">>],
      [raises |-> FALSE, kinds |-> <<"empty">>] }
    \cup { [raises |-> FALSE, kinds |-> <<"found">> \o l \o <<"saved">>] :
               l \in UNION { LoopStatuses(n) : n \in 1..MaxFiles } }
    \cup { [raises |-> FALSE, kinds |-> <<"found">> \o l \o <<"error">>] :
               l \in UNION { LoopStatuses(n) : n \in 0..MaxFiles } }

\* upload_vehicle_report(folder, service, root_folder_id, progress_cb): nothing
\* is caught, a Drive or listing error at any call raises out of the task
UploadOutcomes ==
    { [raises |-> TRUE,  kinds |-> << >>],
      [raises |-> FALSE, kinds |-> <<"nodoc">>],
      [raises |-> TRUE,  kinds |-> <<"prep">>],
      [raises |-> TRUE,  kinds |-> <<"prep", "deleted">>],
      [raises |-> FALSE, kinds |-> <<"prep", "deleted", "uploaded">>] }

\* when the per-vehicle function has returned, task calls
\* gui.mark_vehicle_done(name, "Done"): report_generator's task only when there
\* is a window, script4's always
VehicleDone(c) == IF prog = "upload" \/ gui[c] # "none" THEN <<"vdone">> ELSE << >>

\* the calls task(folder) makes to the sink from its first line to its end:
\* report_generator's task reports "Starting <name>" first; then the statuses
\* of the per-vehicle function; then mark_vehicle_done unless it raised
TaskCourses(c, outcomes) ==
    { [raises |-> o.raises,
       kinds |-> (IF prog = "report" THEN <<"start">> ELSE << >>) \o o.kinds
                   \o (IF o.raises THEN << >> ELSE VehicleDone(c))] : o \in outcomes }

\* s is what a course has sent before its next call
IsPrefix(s, t) == Len(s) <= Len(t) /\ SubSeq(t, 1, Len(s)) = s

\* one step of task(folder): its next call to the sink, which is printed,
\* dropped or handed to the window's thread (the task then waits for it); or,
\* when the calls of a course are all made, the end of the task, by which the
\* future becomes finished
TaskStep(c, v, outcomes) ==
    /\ tpc[c][v] = "gen"
    /\ \E o \in TaskCourses(c, outcomes) :
          /\ IsPrefix(emitted[c][v], o.kinds)
          /\ IF Len(emitted[c][v]) < Len(o.kinds)
             THEN /\ emitted' = [emitted EXCEPT ![c][v] =
                                    Append(@, o.kinds[Len(emitted[c][v]) + 1])]
                  /\ tpc' = [tpc EXCEPT ![c][v] =
                                IF Via(c) = "calling" THEN "calling" ELSE "gen"]
             ELSE /\ tpc' = [tpc EXCEPT ![c][v] = IF o.raises THEN "failed" ELSE "done"]
                  /\ UNCHANGED emitted
    /\ UNCHANGED <<fixed, lastExit, lock, running, pc, how, gui, callVars, wpc, nsub, threadCap,
                   execRaised, allDone, doneHandoff>>

GenerateReport(c, v) ==
    /\ prog = "report"
    /\ TaskStep(c, v, ReportOutcomes)

UploadVehicle(c, v) ==
    /\ prog = "upload"
    /\ TaskStep(c, v, UploadOutcomes)

\* (mutant) the first failed future cancels the futures still queued
CollectCancelsQueued(c, v) ==
    /\ wpc[c] = "collect"
    /\ tpc[c][v] = "failed"
    /\ tpc' = [tpc EXCEPT ![c] = [u \in Vehicles |->
                  IF u = v THEN "caught"
                  ELSE IF tpc[c][u] = "pending" THEN "cancelled" ELSE tpc[c][u]]]
    /\ emitted' = [emitted EXCEPT ![c][v] =
                      IF gui[c] = "none" THEN @ \o <<"boundary">> ELSE @]
    /\ UNCHANGED <<fixed, lastExit, lock, running, pc, how, gui, callVars, wpc,
                   nsub, threadCap, execRaised, allDone, doneHandoff>>

\* for fut in as_completed(futures): fut.result() re-raises the exception of a
\* failed task; the except clause prints it to the console, which is the sink
\* only when the run has no window
Collect(c, v) ==
    /\ wpc[c] = "collect"
    /\ tpc[c][v] = "failed"
    /\ tpc' = [tpc EXCEPT ![c][v] = "caught"]
    /\ emitted' = [emitted EXCEPT ![c][v] =
                      IF gui[c] = "none" THEN @ \o <<"boundary">> ELSE @]
    /\ UNCHANGED <<fixed, lastExit, lock, running, pc, how, gui, callVars, wpc,
                   nsub, threadCap, execRaised, allDone, doneHandoff>>

\* the with-block ends.  report_generator: except prints an executor error and
\* finally runs; script4 has no try, an exception ends the thread
ExecutorExit(c) ==
    /\ \/ wpc[c] = "collect" /\ LoopFinished(c)
       \/ wpc[c] = "drain"
    /\ ExecutorDrained(c)
    /\ wpc' = [wpc EXCEPT ![c] = IF prog = "upload" /\ execRaised[c]
                                 THEN "dead" ELSE "finally"]
    /\ UNCHANGED <<fixed, lastExit, lock, running, pc, how, gui, callVars, nsub, threadCap,
                   execRaised, tpc, emitted, allDone, doneHandoff>>

\* gui.mark_done(...) or print("All reports generated"); the thread ends once
\* the call has returned ("marking": it waits for the window's thread)
MarkDone(c) ==
    /\ wpc[c] = "finally"
    /\ allDone' = [allDone EXCEPT ![c] = @ + 1]
    /\ doneHandoff' = [doneHandoff EXCEPT ![c] = Via(c)]
    /\ wpc' = [wpc EXCEPT ![c] = IF Via(c) = "calling" THEN "marking" ELSE "dead"]
    /\ UNCHANGED <<fixed, lastExit, lock, running, pc, how, gui, callVars, nsub, threadCap,
                   execRaised, tpc, emitted>>

\* ------------------------------------------------------------ script4.main
\* main() runs once, in caller 1
UCall(c) ==
    /\ prog = "upload"
    /\ c = 1
    /\ pc[c] = "idle"
    /\ how[c] = "none"
    /\ pc' = [pc EXCEPT ![c] = "ucheck"]
    /\ poolSize' = [poolSize EXCEPT ![c] = MAX_CONCURRENT_UPLOADS]
    /\ UNCHANGED <<fixed, lastExit, lock, running, how, showGui, nfolders, gui,
                   execVars>>

UReturn(c, reason) ==
    /\ pc' = [pc EXCEPT ![c] = "idle"]
    /\ how' = [how EXCEPT ![c] = reason]

\* isdir check, vehicle_folders, emptiness check
UCheckRoot(c) ==
    /\ pc[c] = "ucheck"
    /\ \/ /\ UReturn(c, "noroot")
          /\ UNCHANGED nfolders
       \/ /\ UReturn(c, "listerr")
          /\ UNCHANGED nfolders
       \/ /\ UReturn(c, "nofolders")
          /\ UNCHANGED nfolders
       \/ /\ \E n \in 1..MaxFolders : nfolders' = [nfolders EXCEPT ![c] = n]
          /\ pc' = [pc EXCEPT ![c] = "ugui"]
          /\ UNCHANGED how
    /\ UNCHANGED <<fixed, lastExit, lock, running, showGui, poolSize, gui, execVars>>

\* gui = UploadProgressGUI(vehicle_names)
UBuildGui(c) ==
    /\ pc[c] = "ugui"
    /\ \/ /\ gui' = [gui EXCEPT ![c] = "created"]
          /\ pc' = [pc EXCEPT ![c] = "uservice"]
          /\ UNCHANGED how
       \/ /\ UReturn(c, "guierr")
          /\ UNCHANGED gui
    /\ UNCHANGED <<fixed, lastExit, lock, running, callVars, execVars>>

\* service = get_drive_service(); root_folder_id = get_or_create_folder(...)
UGetService(c) ==
    /\ pc[c] = "uservice"
    /\ \/ /\ pc' = [pc EXCEPT ![c] = "uthread"]
          /\ UNCHANGED how
       \/ UReturn(c, "serviceerr")
    /\ UNCHANGED <<fixed, lastExit, lock, running, gui, callVars, execVars>>

\* t = threading.Thread(target=run_executor, daemon=True); t.start(); gui.start()
UStartThread(c) ==
    /\ pc[c] = "uthread"
    /\ \/ /\ wpc' = [wpc EXCEPT ![c] = "submit"]
          /\ pc' = [pc EXCEPT ![c] = "gui_start"]
          /\ UNCHANGED how
       \/ /\ UReturn(c, "threaderr")
          /\ UNCHANGED wpc
    /\ UNCHANGED <<fixed, lastExit, lock, running, gui, callVars, nsub, threadCap, execRaised, tpc,
                   emitted, allDone, doneHandoff>>


\* ------------------------------- email_reader_attachment_download.process_vehicle
\* search_latest_vehicle_email, mail.fetch, clean_or_create_folder,
\* get_existing_first_created_dates, extract_all_links
FetchEmail ==
    /\ prog = "fetch"
    /\ fpc = "start"
    /\ \/ /\ fpc' = "done"                  \* no email found, or fetch not OK
          /\ UNCHANGED <<existing, links>>
       \/ /\ fpc' = "raised"                \* the IMAP call raised
          /\ UNCHANGED <<existing, links>>
       \/ /\ existing' = GetExistingFirstCreatedDates(folder)
          /\ \E ls \in SeqsUpTo(Candidates, MaxLinks) :
                /\ links' = ls
                /\ fpc' = IF ls = << >> THEN "done" ELSE "loop"
    /\ UNCHANGED <<prog, batchVars, folder, idx, dlCalls, syncVars>>

\* process_vehicle up to the loop, with the links extracted from the rows of
\* the email's table
ResolveEmail ==
    /\ prog = "fetch"
    /\ fpc = "start"
    /\ \/ /\ fpc' = "done"                  \* no email found, or fetch not OK
          /\ UNCHANGED <<existing, links, rows>>
       \/ /\ fpc' = "raised"                \* the IMAP call raised
          /\ UNCHANGED <<existing, links, rows>>
       \/ /\ existing' = GetExistingFirstCreatedDates(folder)
          /\ \E rs \in SeqsUpTo(TableRows, MaxRows) :
                /\ rows' = rs
                /\ links' = ExtractAllLinks(rs)
                /\ fpc' = IF ExtractAllLinks(rs) = << >> THEN "done" ELSE "loop"
    /\ UNCHANGED <<prog, batchVars, folder, idx, dlCalls, run, firstCalls>>

\* (mutant) the loop steps over the link that follows
NextLinkSkipsOne(i) ==
    /\ idx' = IF i < Len(links) THEN i + 1 ELSE i
    /\ fpc' = IF i + 1 >= Len(links) THEN "done" ELSE "loop"

\* the loop goes on with the next link, or ends after the last one
NextLink(i) ==
    /\ idx' = i
    /\ fpc' = IF i = Len(links) THEN "done" ELSE "loop"

\* local_filename of link i: the date cell with "/" replaced, "_", and the
\* last path segment of the URL; two links with the same date cell and the
\* same segment are written to the same file
LocalFilename(i) == <<"dl", links[i].cell, BaseName(links[i].href)>>

\* f.lower().endswith(".xlsx") of the file download_file writes for link i
IsXlsx(i) == Lower(BaseName(links[i].href).ext) = ".xlsx"

\* what a download may have written (the bytes are the server's): under a name
\* ending in .xlsx a workbook of the link's date or one without a createdAt
\* column, under another name a file the scan does not read
Downloaded(i) ==
    IF IsXlsx(i)
    THEN { File(LocalFilename(i), TRUE, TRUE, TRUE,
                <<DateValue(ParseEmailDate(links[i].cell))>>),
           File(LocalFilename(i), TRUE, TRUE, FALSE, << >>) }
    ELSE { File(LocalFilename(i), FALSE, TRUE, FALSE, << >>) }

\* what a download that fails after open(local_filename, "wb") leaves behind:
\* a cut-off file, which read_excel cannot read
Truncated(i) == File(LocalFilename(i), IsXlsx(i), FALSE, FALSE, << >>)

\* open(local_filename, "wb"): a file of that name is replaced
WriteFile(f) == {g \in folder : g.name # f.name} \cup {f}

\* (mutant) download_file lets the request's exception escape, which ends
\* process_vehicle
DownloadFileRaises(i) ==
    \/ /\ \E f \in Downloaded(i) : folder' = WriteFile(f)
       /\ dlCalls' = Append(dlCalls, [link |-> i, ok |-> TRUE])
       /\ NextLink(i)
    \/ /\ dlCalls' = Append(dlCalls, [link |-> i, ok |-> FALSE])
       /\ fpc' = "raised"
       /\ UNCHANGED <<folder, idx>>

\* download_file(link, vehicle_folder, date_range): the file is written and its
\* name returned, or the exception is logged and None returned
DownloadFile(i) ==
    /\ \/ /\ \E f \in Downloaded(i) : folder' = WriteFile(f)
          /\ dlCalls' = Append(dlCalls, [link |-> i, ok |-> TRUE])
       \/ /\ dlCalls' = Append(dlCalls, [link |-> i, ok |-> FALSE])
          /\ \/ UNCHANGED folder
             \/ folder' = WriteFile(Truncated(i))
    /\ NextLink(i)

\* (mutant) the dedup test is missing
NeverPresent(d) == FALSE

\* if link_date in existing_first_dates
AlreadyPresent(d) == d \in existing

\* one iteration of  for idx, (link, date_range, report_type) in enumerate(links, 1)
ProcessLink ==
    /\ prog = "fetch"
    /\ fpc = "loop"
    /\ LET i == idx + 1
           link_date == ParseEmailDate(links[i].cell)
       IN  \/ /\ link_date = None           \* invalid date: continue
              /\ NextLink(i)
              /\ UNCHANGED <<folder, dlCalls>>
           \/ /\ link_date # None
              /\ AlreadyPresent(link_date)  \* already present: continue
              /\ NextLink(i)
              /\ UNCHANGED <<folder, dlCalls>>
           \/ /\ link_date # None
              /\ ~AlreadyPresent(link_date)
              /\ DownloadFile(i)
    /\ UNCHANGED <<prog, batchVars, existing, links, syncVars>>

\* the folder holds the download of link i as a workbook whose first createdAt
\* value is on the date of the link's email row
Stored(i) ==
    \E f \in folder :
        /\ f.name = LocalFilename(i)
        /\ FirstCreatedDate(f) = ParseEmailDate(links[i].cell)

\* the calls of the sync that has ended, each with what it left in the folder
CallsAsLeft ==
    [k \in DOMAIN dlCalls |->
        [link |-> dlCalls[k].link, ok |-> dlCalls[k].ok,
         stored |-> Stored(dlCalls[k].link)]]

\* (mutant) the second sync adds the dates it asked for in the first sync to
\* the set it scans from the folder
FetchAgainCarriesSet ==
    /\ prog = "fetch"
    /\ fpc = "done"
    /\ run = 1
    /\ links # << >>
    /\ Len(links) <= MaxResyncLinks
    /\ run' = 2
    /\ firstCalls' = CallsAsLeft
    /\ dlCalls' = << >>
    /\ idx' = 0
    /\ fpc' = "loop"
    /\ existing' = GetExistingFirstCreatedDates(folder) \cup
                      { ParseEmailDate(links[dlCalls[k].link].cell) : k \in DOMAIN dlCalls }
    /\ UNCHANGED <<prog, batchVars, folder, links, rows>>

\* process_vehicle is run again for the vehicle with the same email: the same
\* links are extracted, the dedup set is built again from the folder
FetchAgain ==
    /\ prog = "fetch"
    /\ fpc = "done"
    /\ run = 1
    /\ links # << >>
    /\ Len(links) <= MaxResyncLinks
    /\ run' = 2
    /\ firstCalls' = CallsAsLeft
    /\ dlCalls' = << >>
    /\ idx' = 0
    /\ fpc' = "loop"
    /\ existing' = GetExistingFirstCreatedDates(folder)
    /\ UNCHANGED <<prog, batchVars, folder, links, rows>>

\* ------------------------------------------- one task(folder), event by event
\* progress_cb(vehicle_name, percent, status) / gui.mark_vehicle_done
Ev(k, p) == [kind |-> k, pct |-> p]

\* a non-empty workbook: len(df), and len(group), the rows of its most frequent
\* date, 0 when the loop body leaves by one of its continue statements
Workbooks ==
    UNION { { [nrows |-> r, group |-> g] : g \in 0..r } : r \in 1..MaxFileRows }

\* total_rows
RECURSIVE TotalRows(_)
TotalRows(dfs) ==
    IF dfs = << >> THEN 0 ELSE Head(dfs).nrows + TotalRows(Tail(dfs))

\* the pairs (processed_rows, total_rows) with total_rows <= 200 whose float
\* quotient times 100 falls just below the exact value: 29 / 100 * 100 is
\* 28.999999999999996
FloatBelow ==
    { <<29, 50>>, <<29, 100>>, <<57, 100>>, <<58, 100>>, <<87, 150>>,
      <<58, 200>>, <<114, 200>>, <<116, 200>> }

\* (mutant) the percentage is not divided by the total
PercentUnscaled(done, total) == done * 100

\* int((processed_rows / total_rows) * 100), for total_rows <= 200: the float
\* product truncated, one below the exact quotient for the pairs of FloatBelow
Percent(done, total) ==
    IF <<done, total>> \in FloatBelow
    THEN ((done * 100) \div total) - 1
    ELSE (done * 100) \div total

\* task(folder) is entered: report_generator's task reports "Starting" at 0,
\* script4's task goes straight to upload_vehicle_report
TaskStart ==
    /\ tstep = "idle"
    /\ \/ /\ prog = "report"
          /\ sent' = Append(sent, Ev("start", 0))
          /\ tstep' = "list"
       \/ /\ prog = "upload"
          /\ tstep' = "upload"
          /\ UNCHANGED sent
    /\ UNCHANGED <<prog, restVars, hasGui, allDfs, tidx, processedRows>>

\* generate_report_for_vehicle up to its first status: the folder is listed (an
\* error here leaves the task), then "No Excel files" at 0 and return; or the
\* workbooks are read and total_rows is summed, then "All Excel files are
\* empty" at 0 and return, or "Found" at 1
LoadWorkbooks ==
    /\ tstep = "list"
    /\ \/ /\ tstep' = "raised"
          /\ UNCHANGED sent
       \/ /\ allDfs = << >>
          /\ sent' = Append(sent, Ev("noxlsx", 0))
          /\ tstep' = "return"
       \/ /\ allDfs = << >>
          /\ sent' = Append(sent, Ev("empty", 0))
          /\ tstep' = "return"
       \/ /\ allDfs # << >>
          /\ sent' = Append(sent, Ev("found", 1))
          /\ tstep' = "doc"
    /\ UNCHANGED <<prog, restVars, hasGui, allDfs, tidx, processedRows>>

\* doc = Document(); set_page_border(doc.sections[0]); processed_rows = 0: the
\* loop is entered, or an exception is reported at 0 by the except clause
NewDocument ==
    /\ tstep = "doc"
    /\ \/ /\ tstep' = "loop"
          /\ UNCHANGED sent
       \/ /\ sent' = Append(sent, Ev("error", 0))
          /\ tstep' = "return"
    /\ UNCHANGED <<prog, restVars, hasGui, allDfs, tidx, processedRows>>

\* the head of one iteration of  for file_path, df in all_dfs:  "Reading" at
\* the percentage reached so far
ReadWorkbook ==
    /\ tstep = "loop"
    /\ tidx < Len(allDfs)
    /\ sent' = Append(sent, Ev("reading", Percent(processedRows, TotalRows(allDfs))))
    /\ tstep' = "body"
    /\ UNCHANGED <<prog, restVars, hasGui, allDfs, tidx, processedRows>>

\* the rest of the iteration: one of the continue statements, or the page of
\* the file, processed_rows += len(group) and "Processing" at the new
\* percentage, or an exception, reported at 0 by the except clause
ProcessWorkbook ==
    /\ tstep = "body"
    /\ LET df == allDfs[tidx + 1]
           now == processedRows + df.group
       IN  \/ /\ df.group = 0
              /\ tidx' = tidx + 1
              /\ tstep' = "loop"
              /\ UNCHANGED <<sent, processedRows>>
           \/ /\ df.group > 0
              /\ sent' = Append(sent, Ev("processing", Percent(now, TotalRows(allDfs))))
              /\ processedRows' = now
              /\ tidx' = tidx + 1
              /\ tstep' = "loop"
           \/ /\ sent' = Append(sent, Ev("error", 0))
              /\ tstep' = "return"
              /\ UNCHANGED <<tidx, processedRows>>
    /\ UNCHANGED <<prog, restVars, hasGui, allDfs>>

\* doc.save(out_path) and "Saved" at 100, or an exception, reported at 0
SaveReport ==
    /\ tstep = "loop"
    /\ tidx = Len(allDfs)
    /\ \/ sent' = Append(sent, Ev("saved", 100))
       \/ sent' = Append(sent, Ev("error", 0))
    /\ tstep' = "return"
    /\ UNCHANGED <<prog, restVars, hasGui, allDfs, tidx, processedRows>>

\* the percent of each status of upload_vehicle_report
UploadPercent(k) ==
    CASE k = "nodoc" -> 0
      [] k = "prep" -> 5
      [] k = "deleted" -> 50
      [] k = "uploaded" -> 100

\* upload_vehicle_report(folder, ...) up to its first status: the folder is
\* listed and the Drive folder found or created (an error here leaves the
\* task), then "Processed, but no report" at 0 and return, or "Preparing
\* upload" at 5
UploadReport ==
    /\ tstep = "upload"
    /\ \/ /\ tstep' = "raised"
          /\ UNCHANGED sent
       \/ /\ sent' = Append(sent, Ev("nodoc", UploadPercent("nodoc")))
          /\ tstep' = "return"
       \/ /\ sent' = Append(sent, Ev("prep", UploadPercent("prep")))
          /\ tstep' = "delete"
    /\ UNCHANGED <<prog, restVars, hasGui, allDfs, tidx, processedRows>>

\* delete_existing_docs(service, vehicle_folder_id), then "Old files deleted"
\* at 50; a Drive error leaves the task
DeleteExistingDocs ==
    /\ tstep = "delete"
    /\ \/ /\ tstep' = "raised"
          /\ UNCHANGED sent
       \/ /\ sent' = Append(sent, Ev("deleted", UploadPercent("deleted")))
          /\ tstep' = "put"
    /\ UNCHANGED <<prog, restVars, hasGui, allDfs, tidx, processedRows>>

\* upload_docx(service, vehicle_folder_id, report_file), then "Uploaded" at
\* 100; a Drive error leaves the task
UploadDocx ==
    /\ tstep = "put"
    /\ \/ /\ tstep' = "raised"
          /\ UNCHANGED sent
       \/ /\ sent' = Append(sent, Ev("uploaded", UploadPercent("uploaded")))
          /\ tstep' = "return"
    /\ UNCHANGED <<prog, restVars, hasGui, allDfs, tidx, processedRows>>

\* the per-vehicle function has returned: gui.mark_vehicle_done(name, "Done"),
\* which sets the bar to 100; report_generator's task only with a window
TaskEnd ==
    /\ tstep = "return"
    /\ sent' = IF prog = "upload" \/ hasGui THEN Append(sent, Ev("vdone", 100)) ELSE sent
    /\ tstep' = "done"
    /\ UNCHANGED <<prog, restVars, hasGui, allDfs, tidx, processedRows>>

\* one task of the report run (with or without window) or of the upload run,
\* over the workbooks its folder may hold
TaskInit ==
    /\ prog \in {"report", "upload"}
    /\ callers = {1}
    /\ NoRun
    /\ NotFetching
    /\ folder = {}
    /\ tstep = "idle"
    /\ hasGui \in IF prog = "report" THEN BOOLEAN ELSE {TRUE}
    /\ allDfs \in IF prog = "report"
                  THEN SeqsUpTo(Workbooks, MaxFiles)
                  ELSE { << >> }
    /\ tidx = 0
    /\ processedRows = 0
    /\ sent = << >>
    /\ NoSink
    /\ NoLaunch
    /\ NoList
    /\ NoSide

TaskNext ==
    \/ TaskStart
    \/ LoadWorkbooks
    \/ NewDocument
    \/ ReadWorkbook
    \/ ProcessWorkbook
    \/ SaveReport
    \/ UploadReport
    \/ DeleteExistingDocs
    \/ UploadDocx
    \/ TaskEnd

TaskSpec == TaskInit /\ [][TaskNext]_vars

\* ---------------------------------------- the events of one vehicle at the sink
\* what the task of a vehicle sends: "Starting" (report), the statuses of the
\* per-vehicle function, then mark_vehicle_done if the function returned and
\* there is a window; without a window the exception of a task is printed when
\* its future is collected
Plans(w) ==
    IF prog = "report"
    THEN { <<"start">> \o o.kinds \o
             (IF o.raises THEN (IF w = "none" THEN <<"boundary">> ELSE << >>)
              ELSE IF w = "none" THEN << >> ELSE <<"vdone">>) : o \in ReportOutcomes }
    ELSE { o.kinds \o (IF o.raises THEN << >> ELSE <<"vdone">>) : o \in UploadOutcomes }

\* gui.start(): the window begins to dispatch
StartMainloop ==
    /\ win = "created"
    /\ win' = "mainloop"
    /\ UNCHANGED <<prog, unsunkVars, plan, nsent, tkq, seen, handoff>>

\* the window is destroyed; callbacks still waiting are never run, and a
\* root.after call the window's thread has not run yet never returns
CloseWindow ==
    /\ win = "mainloop"
    /\ win' = "destroyed"
    /\ tkq' = << >>
    /\ handoff' = IF handoff = "calling" THEN "hung" ELSE handoff
    /\ UNCHANGED <<prog, unsunkVars, plan, nsent, seen>>

\* progress_wrapper / mark_vehicle_done for the next status: printed when
\* there is no window; while the window dispatches, root.after(0, _apply) is
\* handed to the window's thread and the task waits; when the window does not
\* dispatch the call raises (swallowed)
EmitEvent ==
    /\ nsent < Len(plan)
    /\ handoff = "none"
    /\ nsent' = nsent + 1
    /\ \/ /\ win = "none"
          /\ seen' = Append(seen, nsent + 1)
          /\ UNCHANGED <<tkq, handoff>>
       \/ /\ win = "mainloop"
          /\ handoff' = "calling"
          /\ UNCHANGED <<tkq, seen>>
       \/ /\ win \in {"created", "destroyed"}
          /\ UNCHANGED <<tkq, seen, handoff>>
    /\ UNCHANGED <<prog, unsunkVars, win, plan>>

\* the window's thread runs the root.after call of the task: the callback is
\* appended to the timers that are due, the call returns
RegisterCallback ==
    /\ win = "mainloop"
    /\ handoff = "calling"
    /\ Len(tkq) < MaxQueue
    /\ tkq' = Append(tkq, nsent)
    /\ handoff' = "none"
    /\ UNCHANGED <<prog, unsunkVars, win, plan, nsent, seen>>

\* the task of another vehicle hands a callback to the same window
SiblingEvent ==
    /\ win = "mainloop"
    /\ Len(tkq) < MaxQueue
    /\ tkq' = Append(tkq, 0)
    /\ UNCHANGED <<prog, unsunkVars, win, plan, nsent, seen, handoff>>

\* (mutant) the window runs the callback that was handed over last
ApplyNewest ==
    /\ win = "mainloop"
    /\ tkq # << >>
    /\ seen' = IF tkq[Len(tkq)] = 0 THEN seen ELSE Append(seen, tkq[Len(tkq)])
    /\ tkq' = SubSeq(tkq, 1, Len(tkq) - 1)
    /\ UNCHANGED <<prog, unsunkVars, win, plan, nsent, handoff>>

\* the main loop runs the oldest waiting callback: _apply sets bar and status
ApplyNext ==
    /\ win = "mainloop"
    /\ tkq # << >>
    /\ seen' = IF Head(tkq) = 0 THEN seen ELSE Append(seen, Head(tkq))
    /\ tkq' = Tail(tkq)
    /\ UNCHANGED <<prog, unsunkVars, win, plan, nsent, handoff>>

\* the events of one vehicle of a report run (window or console) or of an
\* upload run, for each course its task may take
SinkInit ==
    /\ prog \in {"report", "upload"}
    /\ callers = {1}
    /\ NoRun
    /\ NotFetching
    /\ folder = {}
    /\ NoTask
    /\ win \in IF prog = "report" THEN {"none", "created"} ELSE {"created"}
    /\ plan \in Plans(win)
    /\ nsent = 0
    /\ tkq = << >>
    /\ seen = << >>
    /\ handoff = "none"
    /\ NoLaunch
    /\ NoList
    /\ NoSide

SinkNext ==
    \/ StartMainloop
    \/ CloseWindow
    \/ EmitEvent
    \/ RegisterCallback
    \/ SiblingEvent
    \/ ApplyNext

SinkSpec == SinkInit /\ [][SinkNext]_vars

\* -------------------------------------------------------- Launcher.LauncherGUI
\* a change of a widget (or a message box) made by a thread: "ui" is the thread
\* of root.mainloop(), "flow" the background thread of a script flow
Touch(w, by) == [w |-> w, by |-> by]

\* what no step of the Launcher changes
unlaunchedVars == <<callers, lastExit, lock, running, pc, how, gui, callVars, execVars,
                    fetchVars, taskVars, sinkVars, listVars, sideVars>>

\* the threads that can run a script flow
Flows == 1..MaxFlows

\* the first script of flow n: 1 runs script1, script2, script3; 2 runs
\* script2, script3; 3 runs script3
FirstScript(n) == IF n = 1 THEN "script1" ELSE IF n = 2 THEN "script2" ELSE "script3"

\* a phase invoked by a script the flow has called
Phase(s, p) == [script |-> s, phase |-> p]

\* the positions of a flow thread inside Octopus_login.main: at the call (the
\* tester is built and the vehicle list read), before the login automation of
\* the vehicles, before the countdown window, before the email fetch, before
\* the report generation
MainPositions == {"script1", "main_login", "main_countdown", "main_fetch",
                  "main_generate"}

\* the positions of a flow thread at or inside a script it calls
Positions == MainPositions \cup {"script2", "script3"}

\* the script a flow thread at position p is in
ScriptAt(p) == IF p \in MainPositions THEN "script1" ELSE p

\* what the step at position p invokes: main invokes the login automation
\* (run_full_test of every vehicle), the email fetch and the report
\* generation; script2 is fetch_reports_for_all_vehicles, script3 is
\* generate_all_reports; building the tester, reading the list and the
\* countdown window are no phase
Invokes(p) ==
    IF p = "main_login" THEN <<Phase("script1", "login")>>
    ELSE IF p = "main_fetch" THEN <<Phase("script1", "fetch")>>
    ELSE IF p = "main_generate" THEN <<Phase("script1", "generate")>>
    ELSE IF p = "script2" THEN <<Phase("script2", "fetch")>>
    ELSE IF p = "script3" THEN <<Phase("script3", "generate")>>
    ELSE << >>

\* the position that follows p when the step at p returns
NextPosition(p) ==
    IF p = "script1" THEN "main_login"
    ELSE IF p = "main_login" THEN "main_countdown"
    ELSE IF p = "main_countdown" THEN "main_fetch"
    ELSE IF p = "main_fetch" THEN "main_generate"
    ELSE IF p = "main_generate" THEN "script2"
    ELSE IF p = "script2" THEN "script3"
    ELSE "showinfo"

\* the flow threads that have been started and have not ended
ActiveFlows == {t \in Flows : lpc[t] # "idle"}

\* a button command: run_script(script_number), in the event loop; a disabled
\* button invokes no command
RunScript(n) ==
    /\ buttons[n] = "normal"
    /\ \E t \in Flows :
        /\ lpc[t] = "idle"
        /\ \A u \in Flows : u < t => lpc[u] # "idle"
        /\ flow' = [flow EXCEPT ![t] = n]
        /\ lpc' = [lpc EXCEPT ![t] = FirstScript(n)]
        /\ ran' = [ran EXCEPT ![t] = << >>]
        /\ called' = [called EXCEPT ![t] = {}]
        /\ ended' = [ended EXCEPT ![t] = [raised |-> "none", box |-> "none"]]
    /\ buttons' = [b \in 1..3 |-> "disabled"]
    /\ statusText' = "running"
    /\ touched' = touched \cup {Touch("buttons", "ui"), Touch("status", "ui")}
    /\ UNCHANGED <<prog, unlaunchedVars, inside, frame>>

\* animate_sticker(idx), re-armed by root.after(100, ...), in the event loop
AnimateSticker ==
    /\ frame' = (frame + 1) % NumFrames
    /\ touched' = touched \cup {Touch("sticker", "ui")}
    /\ UNCHANGED <<prog, unlaunchedVars, lpc, flow, ran, called, inside, ended, buttons,
                   statusText>>

\* flow thread t takes the next step of the script it is in. script1.main():
\* OctopusReportTester() and read_vehicle_list, which invoke no phase and
\* return or raise; the login automation, run for every vehicle of the list
\* and not at all when the list holds no valid line; the countdown window; the
\* email fetch; the report generation. script2 and script3 are one call each.
\* A step that invokes a phase leaves the thread inside that phase
RunStep(t) ==
    /\ lpc[t] \in Positions
    /\ inside[t] = "none"
    /\ called' = [called EXCEPT ![t] = @ \cup {ScriptAt(lpc[t])}]
    /\ \/ /\ lpc[t] = "main_login"         \* for reg_no, start_date in []
          /\ lpc' = [lpc EXCEPT ![t] = NextPosition(@)]
          /\ UNCHANGED <<ran, inside, ended>>
       \/ /\ Invokes(lpc[t]) = << >>
          /\ UNCHANGED <<ran, inside>>
          /\ \/ /\ lpc' = [lpc EXCEPT ![t] = NextPosition(@)]
                /\ UNCHANGED ended
             \/ /\ lpc' = [lpc EXCEPT ![t] = "showerror"]
                /\ ended' = [ended EXCEPT ![t].raised = ScriptAt(lpc[t])]
       \/ /\ Invokes(lpc[t]) # << >>
          /\ ran' = [ran EXCEPT ![t] = @ \o Invokes(lpc[t])]
          /\ inside' = [inside EXCEPT ![t] = Invokes(lpc[t])[1].phase]
          /\ UNCHANGED <<lpc, ended>>
    /\ UNCHANGED <<prog, unlaunchedVars, flow, buttons, statusText, frame, touched>>

\* the phase flow thread t is inside ends: its call returns and the thread
\* goes on to the next statement, or it raises into the except clause of the
\* flow
PhaseEnds(t) ==
    /\ inside[t] # "none"
    /\ inside' = [inside EXCEPT ![t] = "none"]
    /\ \/ /\ lpc' = [lpc EXCEPT ![t] = NextPosition(@)]
          /\ UNCHANGED ended
       \/ /\ lpc' = [lpc EXCEPT ![t] = "showerror"]
          /\ ended' = [ended EXCEPT ![t].raised = ScriptAt(lpc[t])]
    /\ UNCHANGED <<prog, unlaunchedVars, flow, ran, called, buttons, statusText, frame,
                   touched>>

\* messagebox.showinfo at the end of the try block, or messagebox.showerror in
\* the except clause, called by flow thread t; the exception is handled when
\* the except clause is left
ShowBox(t) ==
    /\ lpc[t] \in {"showinfo", "showerror"}
    /\ ended' = [ended EXCEPT ![t] =
                    [raised |-> "none",
                     box |-> IF lpc[t] = "showinfo" THEN "info" ELSE "error"]]
    /\ ran' = [ran EXCEPT ![t] = << >>]
    /\ called' = [called EXCEPT ![t] = {}]
    /\ touched' = touched \cup {Touch("messagebox", "flow")}
    /\ lpc' = [lpc EXCEPT ![t] = "enable1"]
    /\ UNCHANGED <<prog, unlaunchedVars, flow, inside, buttons, statusText, frame>>

\* finally: self.enable_buttons(), called by flow thread t: three config calls,
\* each one executed by the event loop between its other events
EnableButtons(t) ==
    /\ lpc[t] \in {"enable1", "enable2", "enable3"}
    /\ LET b == IF lpc[t] = "enable1" THEN 1 ELSE IF lpc[t] = "enable2" THEN 2 ELSE 3
       IN /\ buttons' = [buttons EXCEPT ![b] = "normal"]
          /\ lpc' = [lpc EXCEPT ![t] = IF b = 1 THEN "enable2"
                                       ELSE IF b = 2 THEN "enable3" ELSE "status"]
    /\ touched' = touched \cup {Touch("buttons", "flow")}
    /\ UNCHANGED <<prog, unlaunchedVars, flow, ran, called, inside, ended, statusText,
                   frame>>

\* finally: self.status_label.config(text="Ready"); flow thread t ends
SetReady(t) ==
    /\ lpc[t] = "status"
    /\ statusText' = "ready"
    /\ touched' = touched \cup {Touch("status", "flow")}
    /\ lpc' = [lpc EXCEPT ![t] = "idle"]
    /\ flow' = [flow EXCEPT ![t] = 0]
    /\ ran' = [ran EXCEPT ![t] = << >>]
    /\ called' = [called EXCEPT ![t] = {}]
    /\ ended' = [ended EXCEPT ![t] = [raised |-> "none", box |-> "none"]]
    /\ UNCHANGED <<prog, unlaunchedVars, inside, buttons, frame>>

LauncherInit ==
    /\ prog = "launcher"
    /\ callers = {1}
    /\ NoRun
    /\ NotFetching
    /\ folder = {}
    /\ NoTask
    /\ NoSink
    /\ NoLaunch
    /\ NoList
    /\ NoSide

LauncherNext ==
    \/ \E n \in 1..3 : RunScript(n)
    \/ AnimateSticker
    \/ \E t \in Flows : RunStep(t)
    \/ \E t \in Flows : PhaseEnds(t)
    \/ \E t \in Flows : ShowBox(t)
    \/ \E t \in Flows : EnableButtons(t)
    \/ \E t \in Flows : SetReady(t)

LauncherSpec == LauncherInit /\ [][LauncherNext]_vars

\* ------------- email_reader_attachment_download.fetch_reports_for_all_vehicles
\* what no step of the loop over the vehicle list changes
unlistedVars == <<callers, lastExit, lock, running, pc, how, gui, callVars, execVars,
                  fetchVars, taskVars, sinkVars, launchVars, sideVars>>

\* how process_vehicle(mail, vehicle_id) may end while the connection is up:
\* mail.search or mail.fetch raises (a refused command, or the connection is
\* lost); it returns before the loop (no email, fetch not OK, no links); it
\* runs the loop, with some number of downloads. The connection can also go
\* after the vehicle's last IMAP call, which process_vehicle does not notice
VehicleOutcomes ==
    { [raised |-> TRUE,  downloads |-> 0, conn |-> "up"],
      [raised |-> TRUE,  downloads |-> 0, conn |-> "lost"] }
        \cup { [raised |-> FALSE, downloads |-> n, conn |-> cn] :
                  n \in 0..MaxLinks, cn \in {"up", "lost"} }

\* the list file is missing or empty (return), or connect_to_mailbox raises,
\* or the loop is entered with the ids of the file
ReadList ==
    /\ prog = "fetchall"
    /\ mpc = "start"
    /\ \/ /\ mpc' = "returned"
          /\ UNCHANGED <<nlisted, conn>>
       \/ /\ \E n \in 1..MaxListed : nlisted' = n
          /\ \/ mpc' = "loop" /\ conn' = "up"
             \/ mpc' = "raised" /\ UNCHANGED conn
    /\ UNCHANGED <<prog, unlistedVars, results>>

\* one iteration of  for vehicle_id in vehicle_ids: an exception of
\* process_vehicle is logged and the loop continues; on a lost connection
\* every IMAP call raises
ListedVehicle ==
    /\ prog = "fetchall"
    /\ mpc = "loop"
    /\ \E o \in VehicleOutcomes :
          /\ conn = "lost" => (o.raised /\ o.conn = "lost")
          /\ results' = Append(results, [raised |-> o.raised, downloads |-> o.downloads])
          /\ conn' = o.conn
    /\ mpc' = IF Len(results) + 1 = nlisted THEN "logout" ELSE "loop"
    /\ UNCHANGED <<prog, unlistedVars, nlisted>>

\* finally: mail.logout() sends LOGOUT and reads the reply, then the closing
\* log line and the return. It raises when the reply does not come: the peer
\* closes the connection at the command, or the connection was lost without
\* a BYE. On a connection the peer has ended with an untagged BYE it returns:
\* the write to the closed connection does not fail and imaplib takes the BYE
\* it has read for the reply to LOGOUT
Logout ==
    /\ prog = "fetchall"
    /\ mpc = "logout"
    /\ mpc' \in {"returned", "raised"}
    /\ conn' = "closed"
    /\ UNCHANGED <<prog, unlistedVars, nlisted, results>>

ListInit ==
    /\ prog = "fetchall"
    /\ callers = {1}
    /\ NoRun
    /\ NotFetching
    /\ folder = {}
    /\ NoTask
    /\ NoSink
    /\ NoLaunch
    /\ NoList
    /\ NoSide

ListNext ==
    \/ ReadList
    \/ ListedVehicle
    \/ Logout

ListSpec == ListInit /\ [][ListNext]_vars

\* ------------------------------------------------------------------- Next
Next ==
    \/ \E c \in Callers : Call(c)
    \/ \E c \in Callers : AcquireRunningLock(c)
    \/ \E c \in Callers : CheckRunning(c)
    \/ \E c \in Callers : SkipReturn(c)
    \/ \E c \in Callers : SetRunning(c)
    \/ \E c \in Callers : CheckRoot(c)
    \/ \E c \in Callers : BuildGui(c)
    \/ \E c \in Callers : StartThread(c)
    \/ \E c \in Callers : Join(c)
    \/ \E c \in Callers : AcquireForReset(c)
    \/ \E c \in Callers : ResetRunning(c)
    \/ \E c \in Callers : EnterMainloop(c)
    \/ \E c \in Callers, v \in Vehicles : ServeCall(c, v)
    \/ \E c \in Callers : ServeMarkDone(c)
    \/ \E c \in Callers : ApplyAllDone(c)
    \/ \E c \in Callers : WindowClosed(c)
    \/ \E c \in Callers : Submit(c)
    \/ \E c \in Callers, v \in Vehicles : RunTask(c, v)
    \/ \E c \in Callers, v \in Vehicles : GenerateReport(c, v)
    \/ \E c \in Callers, v \in Vehicles : UploadVehicle(c, v)
    \/ \E c \in Callers, v \in Vehicles : Collect(c, v)
    \/ \E c \in Callers : ExecutorExit(c)
    \/ \E c \in Callers : MarkDone(c)
    \/ \E c \in Callers : UCall(c)
    \/ \E c \in Callers : UCheckRoot(c)
    \/ \E c \in Callers : UBuildGui(c)
    \/ \E c \in Callers : UGetService(c)
    \/ \E c \in Callers : UStartThread(c)

Spec == Init /\ [][Next]_vars

\* a pool thread that can take a queued task does so, and a task that has been
\* started runs to its end
PoolFairness ==
    \A c \in Callers : \A v \in Vehicles :
        /\ WF_vars(RunTask(c, v))
        /\ WF_vars(GenerateReport(c, v))
        /\ WF_vars(UploadVehicle(c, v))
        /\ WF_vars(ServeCall(c, v))

\* one thread calls generate_all_reports, or script4.main runs
PoolInit ==
    /\ Init
    /\ callers = {1}

\* the steps of a driver that no other call interferes with: every step but the
\* return of a rejected call
PoolNext ==
    \/ \E c \in Callers : Call(c)
    \/ \E c \in Callers : AcquireRunningLock(c)
    \/ \E c \in Callers : CheckRunning(c)
    \/ \E c \in Callers : SetRunning(c)
    \/ \E c \in Callers : CheckRoot(c)
    \/ \E c \in Callers : BuildGui(c)
    \/ \E c \in Callers : StartThread(c)
    \/ \E c \in Callers : Join(c)
    \/ \E c \in Callers : AcquireForReset(c)
    \/ \E c \in Callers : ResetRunning(c)
    \/ \E c \in Callers : EnterMainloop(c)
    \/ \E c \in Callers, v \in Vehicles : ServeCall(c, v)
    \/ \E c \in Callers : ServeMarkDone(c)
    \/ \E c \in Callers : ApplyAllDone(c)
    \/ \E c \in Callers : WindowClosed(c)
    \/ \E c \in Callers : Submit(c)
    \/ \E c \in Callers, v \in Vehicles : RunTask(c, v)
    \/ \E c \in Callers, v \in Vehicles : GenerateReport(c, v)
    \/ \E c \in Callers, v \in Vehicles : UploadVehicle(c, v)
    \/ \E c \in Callers, v \in Vehicles : Collect(c, v)
    \/ \E c \in Callers : ExecutorExit(c)
    \/ \E c \in Callers : MarkDone(c)
    \/ \E c \in Callers : UCall(c)
    \/ \E c \in Callers : UCheckRoot(c)
    \/ \E c \in Callers : UBuildGui(c)
    \/ \E c \in Callers : UGetService(c)
    \/ \E c \in Callers : UStartThread(c)

\* generate_all_reports called by one thread, with nobody at the window: every
\* step of the program, and no closing of the window by the user
UnattendedInit ==
    /\ PoolInit
    /\ prog = "report"

UnattendedNext ==
    \/ \E c \in Callers : Call(c)
    \/ \E c \in Callers : AcquireRunningLock(c)
    \/ \E c \in Callers : CheckRunning(c)
    \/ \E c \in Callers : SetRunning(c)
    \/ \E c \in Callers : CheckRoot(c)
    \/ \E c \in Callers : BuildGui(c)
    \/ \E c \in Callers : StartThread(c)
    \/ \E c \in Callers : Join(c)
    \/ \E c \in Callers : AcquireForReset(c)
    \/ \E c \in Callers : ResetRunning(c)
    \/ \E c \in Callers : EnterMainloop(c)
    \/ \E c \in Callers, v \in Vehicles : ServeCall(c, v)
    \/ \E c \in Callers : ServeMarkDone(c)
    \/ \E c \in Callers : ApplyAllDone(c)
    \/ \E c \in Callers : AutoClose(c)
    \/ \E c \in Callers : Submit(c)
    \/ \E c \in Callers, v \in Vehicles : RunTask(c, v)
    \/ \E c \in Callers, v \in Vehicles : GenerateReport(c, v)
    \/ \E c \in Callers, v \in Vehicles : Collect(c, v)
    \/ \E c \in Callers : ExecutorExit(c)
    \/ \E c \in Callers : MarkDone(c)

\* every thread of the program keeps running and every task terminates
UnattendedFairness ==
    \A c \in Callers :
        /\ WF_vars(AcquireRunningLock(c))
        /\ WF_vars(CheckRunning(c))
        /\ WF_vars(SetRunning(c))
        /\ WF_vars(CheckRoot(c))
        /\ WF_vars(BuildGui(c))
        /\ WF_vars(StartThread(c))
        /\ WF_vars(Join(c))
        /\ WF_vars(AcquireForReset(c))
        /\ WF_vars(ResetRunning(c))
        /\ WF_vars(EnterMainloop(c))
        /\ WF_vars(ServeMarkDone(c))
        /\ WF_vars(ApplyAllDone(c))
        /\ WF_vars(AutoClose(c))
        /\ WF_vars(Submit(c))
        /\ WF_vars(ExecutorExit(c))
        /\ WF_vars(MarkDone(c))
        /\ \A v \in Vehicles :
              /\ WF_vars(RunTask(c, v))
              /\ WF_vars(GenerateReport(c, v))
              /\ WF_vars(ServeCall(c, v))
              /\ WF_vars(Collect(c, v))

UnattendedSpec == UnattendedInit /\ [][UnattendedNext]_vars /\ UnattendedFairness

\* a single driver whose pool threads keep running
PoolSpec == PoolInit /\ [][PoolNext]_vars /\ PoolFairness

\* the sync of one vehicle in the fetch phase
FetchNext ==
    \/ FetchEmail
    \/ ProcessLink
    \/ FetchAgain

FetchSpec == FetchInit /\ [][FetchNext]_vars

\* the sync of one vehicle, from the rows of its email
ResolveNext ==
    \/ ResolveEmail
    \/ ProcessLink

ResolveSpec == FetchInit /\ [][ResolveNext]_vars

\* =================================================================== claims
\* the positions of generate_all_reports between _running = True and the reset
PastGuard(c) ==
    /\ prog = "report"
    /\ pc[c] \in {"try", "gui", "thread", "gui_start", "mainloop", "join",
                  "finally", "reset"}

\* the run of c has a worker thread or a task that has not ended
WorkersActive(c) ==
    \/ wpc[c] \notin {"off", "dead"}
    \/ \E v \in Vehicles : tpc[c][v] \in {"pending"} \cup Executing

\* the entity has been told to the sink as ended, by a success or failure status
HasTerminalStatus(c, v) ==
    \E i \in DOMAIN emitted[c][v] : emitted[c][v][i] \in SuccessKinds \cup FailureKinds

\* C1: single-flight mutual exclusion: at most one call of generate_all_reports
\* is between setting _running and resetting it, and no two runs have workers
\* executing at the same time
C1_SingleFlight ==
    prog = "report" =>
        /\ Cardinality({c \in Callers : PastGuard(c)}) <= 1
        /\ Cardinality({c \in Callers : WorkersActive(c)}) <= 1
        /\ \A c \in Callers : WorkersActive(c) => PastGuard(c)

\* a second caller is inside the guard while the first run's task is executing
C1_Witness ==
    \E c, d \in Callers :
        /\ c # d
        /\ PastGuard(c)
        /\ tpc[c][1] = "gen"
        /\ pc[d] = "check"

\* C2: a call made while another run is active is a no-op: the steps of the
\* rejected call start no worker and no task, emit no event, create no window and
\* leave the flag as it is, and the call holds no run state of its own
C2_RejectedCallIsNoOp ==
    /\ [](\A c \in Callers : pc[c] \in {"enter", "check", "skip"} =>
            /\ wpc[c] = "off"
            /\ nsub[c] = 0
            /\ tpc[c] = NoVehicles
            /\ emitted[c] = NoEvents
            /\ allDone[c] = 0
            /\ gui[c] = "none")
    /\ [][\A c \in Callers :
            (pc[c] \in {"check", "skip"} /\ pc'[c] \in {"skip", "idle"} /\ pc'[c] # pc[c])
            => UNCHANGED <<running, lastExit, gui, wpc, nsub, threadCap, execRaised, tpc, emitted,
                           allDone, doneHandoff>>]_vars

\* a call is being rejected while the active run has a task executing
C2_Witness ==
    \E c, d \in Callers :
        /\ c # d
        /\ pc[d] = "skip"
        /\ running
        /\ tpc[c][1] = "gen"
        /\ emitted[c][1] = <<"start">>

\* C3: the flag is released on every exit path of an accepted run: whenever no
\* accepted call is in its body the flag is False, and a call is rejected only
\* while another call is in its body
C3_FlagReleased ==
    /\ [](prog = "report" =>
            ((\A c \in Callers : ~PastGuard(c)) => running = FALSE))
    /\ [][\A c \in Callers :
            (pc[c] = "check" /\ pc'[c] = "skip")
            => \E d \in Callers : d # c /\ PastGuard(d)]_vars

\* after an accepted call ended by an exception, the next call is accepted
C3_Witness ==
    /\ lastExit = "raised"
    /\ \E c \in Callers : pc[c] = "set"
    /\ running = FALSE

\* C4: an accepted run stays live until its last worker finishes: while a
\* submitted task is pending or running, the call has neither reached its finally
\* clause nor returned, and the flag is set
C4_RunStaysLive ==
    prog = "report" =>
        \A c \in Callers :
            WorkersActive(c) =>
                /\ pc[c] \in {"gui_start", "mainloop", "join"}
                /\ running

\* the window was closed while a task is running and another is still queued
C4_Witness ==
    \E c \in Callers :
        /\ prog = "report"
        /\ gui[c] = "destroyed"
        /\ pc[c] = "join"
        /\ tpc[c][1] = "gen"
        /\ tpc[c][2] = "pending"

\* C5: join barrier: the all-complete event is issued only after every
\* submitted task has completed or failed
C5_JoinBarrier ==
    \A c \in Callers :
        (allDone[c] > 0 \/ wpc[c] \in {"finally", "marking", "dead"}) =>
            \A v \in Submitted(c) : tpc[c][v] \in Terminal

\* all-complete was issued after one task failed and a later one completed
C5_Witness ==
    \E c \in Callers :
        /\ allDone[c] = 1
        /\ nsub[c] = 2
        /\ tpc[c][1] = "caught"
        /\ tpc[c][2] = "done"

\* the sink has the all-complete event of a run: it was printed (no window), or
\* the window's thread has taken the call over or shown it
AllDoneReceived == {"printed", "queued", "applied"}

\* C6: for every run that started its worker thread, of generate_all_reports
\* and of script4.main, the sink receives the all-complete event exactly once,
\* also when tasks failed or the executor raised: it is never issued twice,
\* and when the worker thread has ended it was issued once and has reached the
\* sink
C6_AllDoneOnce ==
    \A c \in Callers :
        /\ allDone[c] <= 1
        /\ wpc[c] = "dead" => /\ allDone[c] = 1
                              /\ doneHandoff[c] \in AllDoneReceived

\* C7: the sink has received a terminal status for every submitted entity when
\* the all-complete event is issued
C7_TerminalStatusForAll ==
    \A c \in Callers :
        allDone[c] > 0 => \A v \in Submitted(c) : HasTerminalStatus(c, v)

\* C8: fault isolation: a queued task is never taken out of the queue except to
\* run, whatever happens to its siblings, and the pool is left only when every
\* submitted task has run to a terminal state
C8_FaultIsolation ==
    /\ [](\A c \in Callers :
            wpc[c] \in {"finally", "marking", "dead"} =>
                \A v \in Submitted(c) : tpc[c][v] \in Terminal)
    /\ [][\A c \in Callers : \A v \in Vehicles :
            /\ tpc[c][v] = "pending" => tpc'[c][v] \in {"pending", "gen"}
            /\ tpc[c][v] \in Executing
                  => tpc'[c][v] \in Executing \cup {"done", "failed"}]_vars

\* with one pool slot, the first task raised and the second, queued behind it,
\* still ran to completion
C8_Witness ==
    \E c \in Callers :
        /\ poolSize[c] = 1
        /\ nsub[c] = 2
        /\ tpc[c][1] \in {"failed", "caught"}
        /\ tpc[c][2] = "done"

\* the links the loop has visited whose date parses and is not in the dedup set
NewLinks(upto) ==
    { i \in 1..upto :
        /\ ParseEmailDate(links[i].cell) # None
        /\ ParseEmailDate(links[i].cell) \notin existing }

\* the links download_file has been called for
CalledLinks == { dlCalls[k].link : k \in DOMAIN dlCalls }

\* C9: per-candidate fault isolation: a failed download or an unparseable row
\* does not end the loop: the loop is left only after the last link, and every
\* visited link with a new date has been passed to download_file
C9_CandidateIsolation ==
    /\ (fpc # "loop" /\ links # << >>) => idx = Len(links)
    /\ NewLinks(idx) \subseteq CalledLinks
    /\ Len(dlCalls) <= idx

\* a row without a date and a failed download were followed by a download
C9_Witness ==
    /\ fpc = "done"
    /\ Len(links) = 3
    /\ ParseEmailDate(links[1].cell) = None
    /\ dlCalls = << [link |-> 2, ok |-> FALSE], [link |-> 3, ok |-> TRUE] >>

\* C10: no duplicate artifacts: download_file is never called for a candidate
\* whose parsed date is in the dedup set built at the start of the sync
C10_NoDuplicateDownload ==
    \A k \in DOMAIN dlCalls :
        ParseEmailDate(links[dlCalls[k].link].cell) \notin existing

\* a link of an already synced date was skipped and a later new one downloaded
C10_Witness ==
    /\ fpc = "done"
    /\ Len(links) = 2
    /\ ParseEmailDate(links[1].cell) \in existing
    /\ dlCalls = << [link |-> 2, ok |-> TRUE] >>

\* C11: dedup idempotence: a second sync of the vehicle with the same
\* candidates never calls download_file
C11_SecondSyncDownloadsNothing ==
    run = 2 => dlCalls = << >>

\* C12: format tie-break: of two candidates of one run that carry the same date
\* in different formats, never both are passed to download_file
C12_FormatTieBreak ==
    \A i, j \in 1..Len(links) :
        (/\ i # j
         /\ ParseEmailDate(links[i].cell) # None
         /\ ParseEmailDate(links[i].cell) = ParseEmailDate(links[j].cell)
         /\ links[i].type # links[j].type)
        => ~(i \in CalledLinks /\ j \in CalledLinks)

\* the first n links restricted to those whose date parses and is not in the
\* dedup set, in the order of the list
RECURSIVE NewLinkSeq(_)
NewLinkSeq(n) ==
    IF n = 0 THEN << >>
    ELSE IF n \in NewLinks(n) THEN Append(NewLinkSeq(n - 1), n)
    ELSE NewLinkSeq(n - 1)

\* C13: the sequence of candidates passed to download_file is the candidate
\* sequence restricted to those whose date parses and is not in the dedup set,
\* in the order the resolver emitted them
C13_ProcessedInResolverOrder ==
    [k \in DOMAIN dlCalls |-> dlCalls[k].link] = NewLinkSeq(idx)

\* of three candidates the second was already synced: the first and the third
\* were processed in that order, the second skipped
C13_Witness ==
    /\ fpc = "done"
    /\ run = 1
    /\ Len(links) = 3
    /\ ParseEmailDate(links[2].cell) \in existing
    /\ [k \in DOMAIN dlCalls |-> dlCalls[k].link] = <<1, 3>>

\* the tasks of the run of c that a pool thread is executing
RunningTasks(c) == {v \in Vehicles : tpc[c][v] \in Executing}

\* every thread of the pool of c is inside a call to a window that has stopped
\* dispatching: no slot of the pool will free again
NoSlotFrees(c) ==
    Cardinality({v \in Vehicles : tpc[c][v] = "hung"}) = PoolThreads(c)

\* C14: bounded parallelism: the tasks running at one time are never more than
\* the pool size, and every task waiting in the queue is eventually started
\* once a slot frees (it waits for good only when no slot ever frees)
C14_BoundedParallelism ==
    /\ [](\A c \in Callers : Cardinality(RunningTasks(c)) <= poolSize[c])
    /\ \A c \in Callers : \A v \in Vehicles :
          (tpc[c][v] = "pending") ~> (tpc[c][v] \in Executing \/ NoSlotFrees(c))

\* with one pool thread a task runs while the other waits in the queue
C14_Witness ==
    \E c \in Callers :
        /\ poolSize[c] = 1
        /\ tpc[c][1] \in Executing
        /\ tpc[c][2] = "pending"
        /\ wpc[c] = "collect"

\* the ways a driver ends because of its configuration: the download root is no
\* directory, or it holds no vehicle folder
ConfigErrors == {"noroot", "nofolders"}

\* C15: configuration errors abort before any work: a call that found the root
\* missing or without vehicle folders has no worker thread, no submitted task,
\* no window and no progress event; it reports the problem in the one step that
\* follows the test and then only returns
C15_ConfigErrorAbortsBeforeWork ==
    /\ [](\A c \in Callers : how[c] \in ConfigErrors =>
            /\ wpc[c] = "off"
            /\ nsub[c] = 0
            /\ tpc[c] = NoVehicles
            /\ gui[c] = "none"
            /\ emitted[c] = NoEvents
            /\ allDone[c] = 0
            /\ pc[c] \in {"finally", "reset", "idle"})
    /\ [][\A c \in Callers :
            (how[c] \notin ConfigErrors /\ how'[c] \in ConfigErrors)
            => (pc[c] \in {"try", "ucheck"} /\ how[c] = "none")]_vars

\* generate_all_reports found no vehicle folder and is on its way out
C15_Witness ==
    \E c \in Callers :
        /\ prog = "report"
        /\ how[c] = "nofolders"
        /\ pc[c] = "finally"
        /\ running

\* C16: every progress event carries an integer percent in the range 0..100
C16_PercentInRange ==
    \A k \in DOMAIN sent : sent[k].pct \in 0..100

\* a report over two workbooks passed through a percentage strictly between the
\* ends and was saved at 100
C16_Witness ==
    /\ prog = "report"
    /\ tstep = "done"
    /\ Len(allDfs) = 2
    /\ \E k \in DOMAIN sent : sent[k].kind = "processing" /\ sent[k].pct \in 2..99
    /\ \E k \in DOMAIN sent : sent[k].kind = "saved" /\ sent[k].pct = 100

\* C18: the percent values of the events of one entity within one run never
\* decrease
C18_PercentNonDecreasing ==
    \A k, l \in DOMAIN sent : k < l => sent[k].pct <= sent[l].pct

\* the statuses by which generate_report_for_vehicle reports that it failed
ReportFailures == {"noxlsx", "empty", "error"}

\* C17: when processing of an entity failed, the last status sent to the sink
\* for it is the failure message, not done / 100%
C17_FailureStatusStays ==
    (/\ prog = "report"
     /\ tstep = "done"
     /\ \E k \in DOMAIN sent : sent[k].kind \in ReportFailures)
    => /\ sent[Len(sent)].kind \in ReportFailures
       /\ sent[Len(sent)].pct < 100

\* C19: the sink observes the events of an entity in emission order: the start
\* event only first, no event after the done event, whatever callbacks of other
\* entities are in between
C19_EventsInEmissionOrder ==
    /\ \A i, j \in DOMAIN seen : i < j => seen[i] < seen[j]
    /\ \A i \in DOMAIN seen : plan[seen[i]] = "start" => i = 1
    /\ \A i \in DOMAIN seen : plan[seen[i]] = "vdone" => i = Len(seen)

\* all six events of a successful report were shown in order while a callback of
\* another vehicle is still waiting
C19_Witness ==
    /\ win = "mainloop"
    /\ plan = <<"start", "found", "reading", "processing", "saved", "vdone">>
    /\ seen = <<1, 2, 3, 4, 5, 6>>
    /\ tkq = <<0>>

\* the moves of the future of one vehicle: queued by submit, taken by a pool
\* thread, finished by return or by exception, the exception collected
Moves(a, b) ==
    \/ a = b
    \/ a = "unsub" /\ b = "pending"
    \/ a = "pending" /\ b = "gen"
    \/ a = "gen" /\ b \in {"calling", "done", "failed"}
    \/ a = "calling" /\ b \in {"gen", "hung"}
    \/ a = "failed" /\ b = "caught"

\* within a run a vehicle only moves Pending -> Running -> Completed | Failed;
\* its state is forgotten only when the call returns
OneWayLifecycle ==
    [][\A c \in Callers :
          \/ pc[c] = "reset" /\ tpc'[c] = NoVehicles
          \/ \A v \in Vehicles : Moves(tpc[c][v], tpc'[c][v])]_vars

\* C20: within one run every vehicle folder is submitted exactly once and
\* moves only Pending -> Running -> Completed or Failed, never back
C20_SubmittedExactlyOnce ==
    /\ [](\A c \in Callers :
            wpc[c] \in {"drain", "collect", "finally", "marking", "dead"}
                => nsub[c] = nfolders[c])
    /\ OneWayLifecycle

\* the statements inside the two with _running_lock blocks: the test of the
\* flag, its setting, the rejected call's print and return, the reset
LockedSteps == {"check", "set", "skip", "reset"}

\* C21: the lock is held only over the check-and-set and the reset of the
\* flag: its holder has no worker thread alive and no window dispatching, and
\* while it keeps the lock it touches no folder list, window, thread or task
C21_LockBracketsFlagOnly ==
    /\ [](\A c \in Callers :
            lock = c => /\ pc[c] \in LockedSteps
                        /\ wpc[c] \in {"off", "dead"}
                        /\ gui[c] # "mainloop"
                        /\ \A v \in Vehicles :
                              tpc[c][v] \notin {"pending"} \cup Executing)
    /\ [][\A c \in Callers :
            (lock = c /\ lock' = c) =>
                UNCHANGED <<nfolders[c], gui[c], wpc[c], nsub[c], tpc[c], emitted[c]>>]_vars

\* the second caller holds the lock for its test of the flag while a task of
\* the first caller's run is executing
C21_Witness ==
    /\ lock = 2
    /\ pc[2] = "check"
    /\ running
    /\ pc[1] \in {"join", "mainloop"}
    /\ tpc[1][1] = "gen"

\* C22: script4.main does not return while a submitted upload task is still
\* pending or running
C22_UploadJoinBarrier ==
    (prog = "upload" /\ pc[1] = "idle" /\ how[1] = "completed")
        => \A v \in Submitted(1) : tpc[1][v] \notin {"pending"} \cup Executing

\* C23: every widget change and message box is executed by the thread of the
\* event loop, never by a background thread
C23_WidgetsOnlyFromEventLoop ==
    \A t \in touched : t.by = "ui"

\* the phases that write to or delete from the vehicle folders of the download
\* root: the fetch saves the downloads there, the generation removes and saves
\* temp_report_<vehicle>.docx there
FolderWriters == {"fetch", "generate"}

\* C24: across the phases no two threads work on the vehicle folders at the
\* same time: of two flow threads never both are inside a phase that writes to
\* the folders, two calls of generate_all_reports excepted, which the
\* single-flight flag keeps apart
C24_OneWriterPerFolder ==
    \A t, u \in Flows :
        (t # u /\ inside[t] \in FolderWriters /\ inside[u] \in FolderWriters)
            => (inside[t] = "generate" /\ inside[u] = "generate")

\* the first-sync downloads that did not complete
Interrupted == { firstCalls[k].link : k \in {j \in DOMAIN firstCalls : ~firstCalls[j].ok} }

\* C25: the dedup set of a sync is the scan of the folder as it is when the
\* sync starts, in the first sync and in the one after; a date whose download
\* was interrupted and that no workbook of the folder yields is asked for again
C25_DedupSetRebuiltFromDisk ==
    /\ (fpc = "loop" /\ dlCalls = << >>)
          => existing = GetExistingFirstCreatedDates(folder)
    /\ (run = 2 /\ fpc = "done")
          => \A i \in Interrupted :
                ParseEmailDate(links[i].cell) \notin existing => i \in CalledLinks

\* the first sync's only download was cut off and left an unreadable workbook;
\* the second sync found no key for it and downloaded it again
C25_Witness ==
    /\ run = 2
    /\ fpc = "done"
    /\ Len(links) = 1
    /\ firstCalls = << [link |-> 1, ok |-> FALSE, stored |-> FALSE] >>
    /\ dlCalls = << [link |-> 1, ok |-> TRUE] >>
    /\ Stored(1)

\* a workbook that yields no key: it cannot be read, has no createdAt column,
\* has only empty createdAt cells, or its first filled cell is no datetime
BadArtifact(f) ==
    \/ ~f.readable
    \/ ~f.hasCol
    \/ \A k \in DOMAIN f.createdAt : f.createdAt[k].kind = "null"
    \/ \E k \in DOMAIN f.createdAt :
          /\ f.createdAt[k].kind = "bad"
          /\ \A j \in 1..(k - 1) : f.createdAt[j].kind = "null"

\* C26: the scan tolerates bad artifacts: the dedup set a sync starts with
\* holds the keys of all workbooks of the folder that are not bad, and nothing
\* from the bad ones
C26_ScanToleratesBadArtifacts ==
    (fpc = "loop" /\ dlCalls = << >>)
        => /\ \A f \in folder :
                (f.xlsx /\ ~BadArtifact(f)) => f.createdAt[1].date \in existing
           /\ \A d \in existing :
                \E f \in folder : f.xlsx /\ ~BadArtifact(f) /\ FirstCreatedDate(f) = d

\* the folder holds a corrupt, a column-less, a null-only and a bad-first-value
\* workbook and a cut-off download, and the keys of both good workbooks were
\* collected
C26_Witness ==
    /\ fpc = "loop"
    /\ dlCalls = << >>
    /\ OtherFiles \subseteq folder
    /\ \E i \in 1..Len(links) :
          IsXlsx(i) /\ Truncated(i) \in folder
    /\ existing = Dates

\* the createdAt values of a workbook that are datetimes, in row order
ValidDates(f) ==
    IF ~f.xlsx \/ ~f.readable \/ ~f.hasCol THEN << >>
    ELSE SelectSeq(f.createdAt, LAMBDA x : x.kind = "datetime")

\* C27: each artifact adds at most one key, the date of its first createdAt
\* value that is a date: every key of the set is the first date of some
\* workbook of the folder, and there are no more keys than workbooks that
\* yield one
C27_FirstKeyPerArtifact ==
    (fpc = "loop" /\ dlCalls = << >>)
        => /\ \A d \in existing :
                \E f \in folder : ValidDates(f) # << >> /\ ValidDates(f)[1].date = d
           /\ \A f \in folder : Cardinality(KeysOf(f)) <= 1
           /\ Cardinality(existing) <= Cardinality({f \in folder : KeysOf(f) # {}})

\* the folder's only good workbook starts on date 1 and has later rows of date
\* 2: the set holds date 1 only
C27_Witness ==
    /\ fpc = "loop"
    /\ dlCalls = << >>
    /\ run = 1
    /\ SyncedFile(1) \in folder
    /\ ValidDates(SyncedFile(1))[3].date = 2
    /\ existing = {1}

\* C28: when process_vehicle raises for a vehicle before any candidate is
\* processed, nothing is downloaded for it, every later vehicle of the list is
\* still processed, and the run ends normally
C28_EntityFailureIsolated ==
    (/\ mpc \in {"returned", "raised"}
     /\ \E k \in DOMAIN results : results[k].raised)
        => /\ \A k \in DOMAIN results : results[k].raised => results[k].downloads = 0
           /\ Len(results) = nlisted
           /\ mpc = "returned"

\* the rows of the email that emit a link: at least three cells and a link in
\* the CAN or the CSV cell
EmittingRows ==
    { k \in DOMAIN rows : rows[k].ncols >= 3 /\ (rows[k].can # NoHref \/ rows[k].csv # NoHref) }

\* the row the n-th link comes from
RowOfLink(n) ==
    CHOOSE k \in EmittingRows : Cardinality({ j \in EmittingRows : j < k }) = n - 1

\* C29: extract_all_links emits one link for each row of at least three cells
\* that has a CAN or a CSV link, the CAN link if there is one and else the CSV
\* link, nothing for any other row, in row order
C29_OneLinkPerRow ==
    fpc # "start"
        => /\ Len(links) = Cardinality(EmittingRows)
           /\ \A n \in DOMAIN links :
                /\ links[n].cell = rows[RowOfLink(n)].cell
                /\ links[n].type = IF rows[RowOfLink(n)].can # NoHref THEN "can" ELSE "csv"
                /\ links[n].href = IF rows[RowOfLink(n)].can # NoHref
                                   THEN rows[RowOfLink(n)].can ELSE rows[RowOfLink(n)].csv

\* a row of two cells emitted nothing and the row after it, with both links,
\* emitted its CAN link only
C29_Witness ==
    /\ Len(rows) = 2
    /\ rows[1].ncols = 2
    /\ rows[1].csv # NoHref
    /\ rows[2].can # NoHref
    /\ rows[2].csv # NoHref
    /\ rows[2].csv # rows[2].can
    /\ links = << Link(rows[2].can, rows[2].cell, "can") >>

\* C30: every accepted run of generate_all_reports eventually returns and
\* releases the flag, with nobody closing the window
C30_AcceptedRunReturns ==
    \A c \in Callers : (pc[c] = "try") ~> (pc[c] = "idle" /\ ~running)

\* ------------------------- email_reader_attachment_download.start_countdown
\* what the drivers, the fetch, the Launcher and the list loop keep
mainVars == <<callers, lastExit, lock, running, pc, how, gui, callVars, execVars,
              fetchVars, taskVars, sinkVars, launchVars, listVars>>

\* what no step of start_countdown changes
uncountedVars == <<prog, mainVars, reportVars, stickerVars>>

\* the event loop of the countdown window executes the widget calls of other
\* threads: root.mainloop() is running, no handler is executing, and the
\* window exists
Dispatching == upc = "mainloop" /\ rootUp

\* how a widget call of the countdown thread ends when the event loop does not
\* execute it: a call made once root.mainloop() has returned raises ("main
\* thread is not in main loop"); a call made while the loop is inside skip(),
\* or is about to end because the window is destroyed, is never executed and
\* the thread waits in it
Undelivered == IF upc = "returned" THEN "raised" ELSE "blocked"

\* the calls root.destroy() makes, in order: the label is destroyed, then the
\* button, then the window itself; each is a call of its own that the event
\* loop executes between its other events
DestroyCalls == <<"destroy", "destroy_button", "destroy_root">>

\* the Skip button exists: no root.destroy() has destroyed it
SkipButtonUp == rootUp /\ cpc # "destroy_root"

\* start_countdown(wait_minutes): the window is built, the countdown thread is
\* started and the caller enters root.mainloop()
CountdownInit ==
    /\ prog = "countdown"
    /\ callers = {1}
    /\ NoRun
    /\ NotFetching
    /\ folder = {}
    /\ NoTask
    /\ NoSink
    /\ NoLaunch
    /\ NoList
    /\ NoReport
    /\ NoSticker
    /\ cpc = "test"
    /\ upc = "mainloop"
    /\ remaining \in 0..MaxSeconds
    /\ skipEvent = FALSE
    /\ rootUp = TRUE
    /\ fetch = [t \in CountThreads |-> "none"]

\* countdown(): while remaining > 0 and not skip_event.is_set()
CountdownTest ==
    /\ upc # "exited"
    /\ cpc = "test"
    /\ cpc' = IF remaining > 0 /\ ~skipEvent THEN "label" ELSE "destroy"
    /\ UNCHANGED <<uncountedVars, upc, remaining, skipEvent, rootUp, fetch>>

\* countdown(): timer_label.config(text=...), called by the countdown thread
CountdownLabel ==
    /\ upc # "exited"
    /\ cpc = "label"
    /\ cpc' = IF Dispatching THEN "sleep" ELSE Undelivered
    /\ UNCHANGED <<uncountedVars, upc, remaining, skipEvent, rootUp, fetch>>

\* countdown(): time.sleep(1); remaining -= 1
CountdownSleep ==
    /\ upc # "exited"
    /\ cpc = "sleep"
    /\ remaining' = remaining - 1
    /\ cpc' = "test"
    /\ UNCHANGED <<uncountedVars, upc, skipEvent, rootUp, fetch>>

\* countdown(): root.destroy(), called by the countdown thread, one call at a
\* time. The event loop executes the call that destroys the window and ends;
\* the call root.destroy() makes after it (tk.deletecommand of the window's
\* commands) is handed to a loop that has ended, so the thread waits in it
\* and run_script() in the line after is not reached
CountdownDestroy ==
    /\ upc # "exited"
    /\ \E k \in DOMAIN DestroyCalls :
          /\ cpc = DestroyCalls[k]
          /\ IF ~Dispatching
             THEN cpc' = Undelivered /\ UNCHANGED rootUp
             ELSE IF k < Len(DestroyCalls)
             THEN cpc' = DestroyCalls[k + 1] /\ UNCHANGED rootUp
             ELSE cpc' = "blocked" /\ rootUp' = FALSE
    /\ UNCHANGED <<uncountedVars, upc, remaining, skipEvent, fetch>>

\* skip(), the command of the Skip button, in the event loop:
\* skip_event.set()
Skip ==
    /\ Dispatching
    /\ SkipButtonUp
    /\ skipEvent' = TRUE
    /\ upc' = "pressed"
    /\ UNCHANGED <<uncountedVars, cpc, remaining, rootUp, fetch>>

\* skip(): root.destroy(), and run_script() starts the fetch in the handler
SkipDestroy ==
    /\ upc = "pressed"
    /\ rootUp' = FALSE
    /\ fetch' = [fetch EXCEPT !["ui"] = "running"]
    /\ upc' = "skip"
    /\ UNCHANGED <<uncountedVars, cpc, remaining, skipEvent>>

\* fetch_reports_for_all_vehicles ends in skip(), which returns to the event
\* loop
SkipFetched ==
    /\ upc = "skip"
    /\ fetch' = [fetch EXCEPT !["ui"] = "complete"]
    /\ upc' = "mainloop"
    /\ UNCHANGED <<uncountedVars, cpc, remaining, skipEvent, rootUp>>

\* root.mainloop() returns once the window is destroyed, and start_countdown
\* returns
MainloopReturns ==
    /\ upc = "mainloop"
    /\ ~rootUp
    /\ upc' = "returned"
    /\ UNCHANGED <<uncountedVars, cpc, remaining, skipEvent, rootUp, fetch>>

\* the script ends after start_countdown(): the process exits and the daemon
\* countdown thread ends with it, wherever it is
ProcessExits ==
    /\ upc = "returned"
    /\ upc' = "exited"
    /\ UNCHANGED <<uncountedVars, cpc, remaining, skipEvent, rootUp, fetch>>

CountdownNext ==
    \/ CountdownTest
    \/ CountdownLabel
    \/ CountdownSleep
    \/ CountdownDestroy
    \/ Skip
    \/ SkipDestroy
    \/ SkipFetched
    \/ MainloopReturns
    \/ ProcessExits

CountdownSpec == CountdownInit /\ [][CountdownNext]_vars

\* ------------------ report_generator.generate_report_for_vehicle: the folder
\* what no step of the report run in one folder changes
unreportedVars == <<prog, mainVars, countVars, stickerVars>>

\* the .docx files a vehicle folder may hold before a run: the name the run
\* saves its report under, a report of the folder under an earlier name with
\* an upper-case extension, and a document that is no report
DocNames == {
    [prefix |-> "temp_report_", stem |-> "v", ext |-> ".docx"],
    [prefix |-> "temp_report_", stem |-> "old", ext |-> ".DOCX"],
    [prefix |-> "notes_", stem |-> "v", ext |-> ".docx"] }


\* f.lower().endswith(".docx") and f.startswith("temp_report_")
IsTempReport(name) == Lower(name.ext) = ".docx" /\ name.prefix = "temp_report_"

\* out_path: temp_report_<basename of the folder>.docx
OutName == [prefix |-> "temp_report_", stem |-> "v", ext |-> ".docx"]

\* a file of the folder: whether os.remove can delete it, and the run that
\* wrote it
Doc(name, removable, by) == [name |-> name, removable |-> removable, by |-> by]

\* the folders a run may find: any of the documents, each one deletable or
\* not, all written before this run
OldFolders ==
    { fs \in SUBSET { Doc(n, r, "previous") : n \in DocNames, r \in BOOLEAN } :
        \A f, g \in fs : f.name = g.name => f = g }

\* what the workbooks of the folder hold: there is none, all are empty or
\* unreadable, they have rows, or they have rows the report cannot be built
\* from
WorkbookKinds == {"none", "empty", "rows", "bad"}

\* the reports in the folder
TempReports == { f \in docs : IsTempReport(f.name) }

\* generate_report_for_vehicle has returned
Returned == gpc \in {"noxlsx", "allempty", "error", "saved"}

ReportInit ==
    /\ prog = "folder"
    /\ callers = {1}
    /\ NoRun
    /\ NotFetching
    /\ folder = {}
    /\ NoTask
    /\ NoSink
    /\ NoLaunch
    /\ NoList
    /\ NoCountdown
    /\ NoSticker
    /\ gpc = "start"
    /\ docs \in OldFolders
    /\ workbooks \in WorkbookKinds

\* the loop that deletes the old reports: os.remove of every temp_report_
\* .docx file, a failure being ignored
DeleteOld ==
    /\ gpc = "start"
    /\ docs' = { f \in docs : ~(IsTempReport(f.name) /\ f.removable) }
    /\ gpc' = "list"
    /\ UNCHANGED <<unreportedVars, workbooks>>

\* xlsx_files is built; without workbooks the function returns
ListWorkbooks ==
    /\ gpc = "list"
    /\ gpc' = IF workbooks = "none" THEN "noxlsx" ELSE "read"
    /\ UNCHANGED <<unreportedVars, docs, workbooks>>

\* the workbooks are read; with total_rows == 0 the function returns
ReadWorkbooks ==
    /\ gpc = "read"
    /\ gpc' = IF workbooks = "empty" THEN "allempty" ELSE "build"
    /\ UNCHANGED <<unreportedVars, docs, workbooks>>

\* the document is built from the rows; an exception goes to the handler,
\* which reports it and returns
BuildReport ==
    /\ gpc = "build"
    /\ gpc' = IF workbooks = "bad" THEN "error" ELSE "save"
    /\ UNCHANGED <<unreportedVars, docs, workbooks>>

\* doc.save(out_path): the report is written, over a file of that name if one
\* is left, or the save raises and the handler returns
SaveDocx ==
    /\ gpc = "save"
    /\ \/ /\ gpc' = "saved"
          /\ docs' = { f \in docs : f.name # OutName }
                        \cup { Doc(OutName,
                                   \A f \in docs : f.name = OutName => f.removable,
                                   "this") }
       \/ /\ gpc' = "error"
          /\ UNCHANGED docs
    /\ UNCHANGED <<unreportedVars, workbooks>>

ReportNext ==
    \/ DeleteOld
    \/ ListWorkbooks
    \/ ReadWorkbooks
    \/ BuildReport
    \/ SaveDocx

ReportSpec == ReportInit /\ [][ReportNext]_vars

\* ------------------------------------------------ Launcher.get_sticker_folder
\* what no call of get_sticker_folder changes
unstuckVars == <<prog, mainVars, countVars, reportVars>>

\* the characters of a folder name, a name being the sequence of its
\* characters
Chars == {" ", "a"}

\* the order of the characters: a space sorts before a letter
Rank(ch) == IF ch = " " THEN 32 ELSE 97

\* the texts a state file may hold
Texts == UNION { [1..n -> Chars] : n \in 0..MaxNameLen }

\* the folder names: the texts with a letter
Names == { t \in Texts : \E i \in DOMAIN t : t[i] # " " }

\* s < t for two strings
RECURSIVE Before(_, _)
Before(s, t) ==
    IF s = << >> THEN t # << >>
    ELSE IF t = << >> THEN FALSE
    ELSE IF Head(s) = Head(t) THEN Before(Tail(s), Tail(t))
    ELSE Rank(Head(s)) < Rank(Head(t))

\* sorted(...) of a set of names
RECURSIVE SortedNames(_)
SortedNames(S) ==
    IF S = {} THEN << >>
    ELSE LET first == CHOOSE x \in S : \A y \in S : x = y \/ Before(x, y)
         IN <<first>> \o SortedNames(S \ {first})

\* str.strip(): the text without its leading and trailing white space
RECURSIVE Strip(_)
Strip(s) ==
    IF s = << >> THEN s
    ELSE IF Head(s) = " " THEN Strip(Tail(s))
    ELSE IF s[Len(s)] = " " THEN Strip(SubSeq(s, 1, Len(s) - 1))
    ELSE s

\* basenames.index(name)
IndexOf(basenames, name) ==
    CHOOSE i \in DOMAIN basenames :
        /\ basenames[i] = name
        /\ \A j \in DOMAIN basenames : basenames[j] = name => i <= j

\* get_sticker_folder() with the sub-folders dirs and the state file state:
\* the folder it returns (None without sub-folders) and the state file it
\* leaves; indices count from 1. The read of the state file is inside a try
\* block, the write is not: when the file cannot be opened the call raises
\* and returns nothing
GetStickerFolder(dirs, state) ==
    LET basenames == SortedNames(dirs)
        last_value == IF state.kind = "text" THEN Strip(state.text) ELSE << >>
        current_index ==
            IF last_value # << >> /\ \E i \in DOMAIN basenames : basenames[i] = last_value
            THEN (IndexOf(basenames, last_value) % Len(basenames)) + 1
            ELSE 1
    IN IF dirs = {}
       THEN [chosen |-> None, raised |-> FALSE, state |-> state]
       ELSE IF state.kind = "locked"
       THEN [chosen |-> None, raised |-> TRUE, state |-> state]
       ELSE [chosen |-> basenames[current_index], raised |-> FALSE,
             state |-> StateFile("text", basenames[current_index])]

\* the sticker directory and the state file a first launch may find
StickerInit ==
    /\ prog = "sticker"
    /\ callers = {1}
    /\ NoRun
    /\ NotFetching
    /\ folder = {}
    /\ NoTask
    /\ NoSink
    /\ NoLaunch
    /\ NoList
    /\ NoCountdown
    /\ NoReport
    /\ stickers \in { S \in SUBSET Names : Cardinality(S) <= MaxStickers }
    /\ stateFile \in { StateFile("missing", << >>), StateFile("unreadable", << >>),
                       StateFile("locked", << >>) }
                        \cup { StateFile("text", t) : t \in Texts }
    /\ launches = << >>

\* a launch of the Launcher: LauncherGUI.__init__ calls get_sticker_folder(),
\* and is left by the exception when the call raises
Launch ==
    /\ Len(launches) < MaxLaunches
    /\ LET r == GetStickerFolder(stickers, stateFile)
       IN /\ launches' = Append(launches, [found |-> stateFile, chosen |-> r.chosen,
                                           raised |-> r.raised])
          /\ stateFile' = r.state
    /\ UNCHANGED <<unstuckVars, stickers>>

StickerNext == Launch

StickerSpec == StickerInit /\ [][StickerNext]_vars

\* the positions of a flow thread before its finally block
InTry == Positions \cup {"showinfo", "showerror"}

\* C31: at most one script-flow thread is active at any time, and from the
\* click that starts a flow until the flow's finally block all three buttons
\* are disabled
C31_OneFlowAtATime ==
    /\ Cardinality(ActiveFlows) <= 1
    /\ \A t \in Flows :
          lpc[t] \in InTry => \A b \in 1..3 : buttons[b] = "disabled"

\* the scripts flow n calls when none raises
ScriptsOfFlow(n) ==
    IF n = 1 THEN {"script1", "script2", "script3"}
    ELSE IF n = 2 THEN {"script2", "script3"} ELSE {"script3"}

\* the scripts a flow calls after script s
ScriptsAfter(s) ==
    IF s = "script1" THEN {"script2", "script3"}
    ELSE IF s = "script2" THEN {"script3"} ELSE {}

\* the scripts whose phases flow thread t has invoked
Invoked(t) == { ran[t][i].script : i \in DOMAIN ran[t] }

\* C32: a flow shows the error box exactly when one of its scripts raised, and
\* then no later script of the flow was called; it shows the completed box
\* exactly when all its scripts were called and none raised; when the flow
\* ends the status label reads Ready and all three buttons are enabled
C32_FlowEndRestoresUi ==
    [][\A t \in Flows :
        /\ (lpc[t] \in {"showinfo", "showerror"} /\ lpc'[t] = "enable1")
              => /\ ended'[t].box = IF ended[t].raised = "none" THEN "info" ELSE "error"
                 /\ ended[t].raised = "none" => called[t] = ScriptsOfFlow(flow[t])
                 /\ ended[t].raised # "none"
                       => /\ ended[t].raised \in called[t]
                          /\ called[t] \cap ScriptsAfter(ended[t].raised) = {}
                          /\ Invoked(t) \cap ScriptsAfter(ended[t].raised) = {}
        /\ (lpc[t] = "status" /\ lpc'[t] = "idle")
              => /\ statusText' = "ready"
                 /\ \A b \in 1..3 : buttons'[b] = "normal"
      ]_vars

\* the phases flow thread t has invoked, in order
PhaseNames(t) == [i \in DOMAIN ran[t] |-> ran[t][i].phase]

\* C33: in the flow of button 1 each phase is invoked exactly once per click
\* and in order: the login automation, then the email fetch, then the report
\* generation
C33_EachPhaseOnceInOrder ==
    \A t \in Flows :
        (flow[t] = 1 /\ lpc[t] = "showinfo")
            => PhaseNames(t) = <<"login", "fetch", "generate">>

\* C34: start_countdown runs the email fetch exactly once per countdown and to
\* completion: run_script is never invoked by both the countdown thread and
\* the skip handler, and when the process has exited one fetch has completed
\* and none was cut short
C34_FetchOnceToCompletion ==
    /\ Cardinality({t \in CountThreads : fetch[t] # "none"}) <= 1
    /\ upc = "exited" => \E t \in CountThreads : fetch[t] = "complete"

\* C35: after generate_report_for_vehicle has returned, the folder holds at
\* most one temp_report_*.docx, every one it holds was saved by this call, and
\* it holds none unless this call saved its report
C35_NoStaleReport ==
    Returned
        => /\ Cardinality(TempReports) <= 1
           /\ \A f \in TempReports : f.by = "this"
           /\ gpc # "saved" => TempReports = {}

\* the folder that follows name in the sorted sub-folders, the first one
\* following the last
Following(name) ==
    LET sorted == SortedNames(stickers)
    IN sorted[(IndexOf(sorted, name) % Len(sorted)) + 1]

\* C36: with sub-folders present, every call of get_sticker_folder returns the
\* folder that follows the one the state file names, the first folder when the
\* state file is missing, unreadable or names no sub-folder; the state file
\* then names the folder returned; and as many consecutive calls as there are
\* sub-folders return every sub-folder once
C36_RoundRobin ==
    stickers # {}
        => /\ \A i \in DOMAIN launches :
                /\ ~launches[i].raised
                /\ (launches[i].found.kind = "text" /\ launches[i].found.text \in stickers)
                      => launches[i].chosen = Following(launches[i].found.text)
                /\ (launches[i].found.kind # "text"
                      \/ (/\ launches[i].found.text \notin stickers
                          /\ Strip(launches[i].found.text) \notin stickers))
                      => launches[i].chosen = SortedNames(stickers)[1]
           /\ launches # << >>
                => stateFile = StateFile("text", launches[Len(launches)].chosen)
           /\ \A i \in DOMAIN launches :
                i + Cardinality(stickers) - 1 <= Len(launches)
                    => { launches[j].chosen : j \in i..(i + Cardinality(stickers) - 1) }
                          = stickers

====
